---- MODULE Spec2Model ----
(***************************************************************************)
(* Model of flight_ticket_mcp_server/tools/flight_search_tools.py:         *)
(* searchFlightRoutes and the FlightRouteSearcher pipeline it drives.      *)
(*                                                                         *)
(* A text is a sequence of characters, a character a one-element string.   *)
(* Characters outside ASCII are written as tokens: "yen" for the currency  *)
(* symbol, "qi" for the qualifier word of a price, "tian" for the day      *)
(* character of the "+1 day" marker, "nbsp" for the non-breaking space.    *)
(* An optional value (a dict key that may be missing, an element that may  *)
(* not be found) is a sequence of length 0 or 1: None or Some(v).          *)
(*                                                                         *)
(* The folds over a list bind each step's result before the next step,     *)
(* as in CHOOSE r \in {F(v) : v \in {e}} : TRUE, which is F(e) with e      *)
(* computed first.                                                         *)
(***************************************************************************)
EXTENDS Integers, Sequences, FiniteSets, TLC

\* ------------------------------------------------------------------ bounds

\* Number of flight containers the modelled page can hold.
MaxItems == 37

\* the polls of a waiting loop that fit into its timeout
MaxPolls == 2

\* ------------------------------------------------------- program constants

max_rounds == 5
stable_rounds == 3
FlightCap == 30

\* len(loading_selectors)
LoadingSelectors == 7

\* ------------------------------------------------------------------- texts

None == <<>>
Some(v) == <<v>>
IsSome(o) == Len(o) > 0
Get(o) == o[1]
\* dict.get(key) or '' : the text of an optional text, '' when missing
OrEmpty(o) == IF IsSome(o) THEN o[1] ELSE <<>>

Yen == "yen"
Qi == "qi"
Tian == "tian"
Nbsp == "nbsp"
Bar == "|"

Upper ==
    {"A","B","C","D","E","F","G","H","I","J","K","L","M",
     "N","O","P","Q","R","S","T","U","V","W","X","Y","Z"}
DigitChars == <<"0","1","2","3","4","5","6","7","8","9">>
Digit == {DigitChars[i] : i \in 1..10}
\* what str.strip() removes
Whitespace == {" ", Nbsp}

Max(a, b) == IF a >= b THEN a ELSE b

\* s.strip(chars): drop leading and trailing characters of the set
RECURSIVE LStrip(_, _)
LStrip(s, chars) ==
    IF s # <<>> /\ Head(s) \in chars THEN LStrip(Tail(s), chars) ELSE s
RECURSIVE RStrip(_, _)
RStrip(s, chars) ==
    IF s # <<>> /\ s[Len(s)] \in chars
    THEN RStrip(SubSeq(s, 1, Len(s) - 1), chars)
    ELSE s
StripChars(s, chars) == RStrip(LStrip(s, chars), chars)
Strip(s) == StripChars(s, Whitespace)

\* sep.join(parts)
RECURSIVE Join(_, _)
Join(parts, sep) ==
    IF parts = <<>> THEN <<>>
    ELSE IF Len(parts) = 1 THEN parts[1]
    ELSE parts[1] \o <<sep>> \o Join(Tail(parts), sep)

\* s.replace(old, new) for a single character old
ReplaceChar(s, old, new) == [i \in 1..Len(s) |-> IF s[i] = old THEN new ELSE s[i]]

\* pat in s
StartsAt(s, pat, i) ==
    /\ i + Len(pat) - 1 <= Len(s)
    /\ \A k \in 1..Len(pat) : s[i + k - 1] = pat[k]
Contains(s, pat) == \E i \in 1..Len(s) : StartsAt(s, pat, i)

\* s.replace(pat, new), every occurrence, left to right
RECURSIVE ReplaceAll(_, _, _)
ReplaceAll(s, pat, new) ==
    IF s = <<>> \/ pat = <<>> THEN s
    ELSE IF StartsAt(s, pat, 1)
         THEN new \o ReplaceAll(SubSeq(s, Len(pat) + 1, Len(s)), pat, new)
         ELSE <<Head(s)>> \o ReplaceAll(Tail(s), pat, new)

\* re.search(r'([A-Z]{2}\d{3,4})', s): the leftmost match, greedy on the digits
FlightNoAt(s, i) ==
    /\ i + 4 <= Len(s)
    /\ s[i] \in Upper /\ s[i + 1] \in Upper
    /\ s[i + 2] \in Digit /\ s[i + 3] \in Digit /\ s[i + 4] \in Digit
SearchFlightNo(s) ==
    IF \E i \in 1..Len(s) : FlightNoAt(s, i)
    THEN LET i == CHOOSE j \in 1..Len(s) :
                    FlightNoAt(s, j) /\ \A k \in 1..(j - 1) : ~FlightNoAt(s, k)
             last == IF i + 5 <= Len(s) /\ s[i + 5] \in Digit THEN i + 5 ELSE i + 4
         IN  Some(SubSeq(s, i, last))
    ELSE None

\* re.search(r'(\d+)', s): the leftmost run of digits
RECURSIVE DigitRun(_)
DigitRun(s) ==
    IF s # <<>> /\ Head(s) \in Digit THEN <<Head(s)>> \o DigitRun(Tail(s)) ELSE <<>>
RECURSIVE SearchDigits(_)
SearchDigits(s) ==
    IF s = <<>> THEN None
    ELSE IF Head(s) \in Digit THEN Some(DigitRun(s))
    ELSE SearchDigits(Tail(s))

\* str.isdigit() and int(str) for ASCII digits
IsDigitStr(s) == s # <<>> /\ \A i \in 1..Len(s) : s[i] \in Digit
DigitVal(ch) == (CHOOSE i \in 1..10 : DigitChars[i] = ch) - 1
RECURSIVE ToInt(_)
ToInt(s) ==
    IF s = <<>> THEN 0
    ELSE 10 * ToInt(SubSeq(s, 1, Len(s) - 1)) + DigitVal(s[Len(s)])

\* the decimal text of a natural number
RECURSIVE ToText(_)
ToText(n) ==
    IF n < 10 THEN <<DigitChars[n + 1]>>
    ELSE ToText(n \div 10) \o <<DigitChars[(n % 10) + 1]>>

\* ------------------------------------------------- the page: DOM containers

(***************************************************************************)
(* A flight container of the page, as _parse_flight_container sees it: for *)
(* each selector it queries, the text (or id attribute) of the element     *)
(* found, or None when no element is found.  other_text is the text of the *)
(* container that lies in none of the queried elements.  lookup_fails are  *)
(* the selectors whose lookup raises, text_fails the elements whose text   *)
(* (or id attribute) cannot be read; "text" there is container.text.       *)
(***************************************************************************)
EmptyContainer ==
    [airline_span |-> None, plane_no_span |-> None, airline_id |-> None,
     comfort_id |-> None, depart_time |-> None, depart_airport |-> None,
     depart_terminal |-> None, arrive_time |-> None, arrive_airport |-> None,
     arrive_terminal |-> None, price_span |-> None, other_text |-> <<>>,
     lookup_fails |-> {}, text_fails |-> {}]

\* C12 mutant: the lookup is not guarded against a failure
SafeEleUnguarded(container, selector) == container[selector]

\* _safe_ele(container, selector): the element, None when the lookup raises
SafeEle(container, selector) ==
    IF selector \in container.lookup_fails THEN None ELSE container[selector]

\* container.text: the text of the container with all its descendants
ContainerText(container) ==
    Join(<<OrEmpty(container.airline_span), OrEmpty(container.plane_no_span),
           OrEmpty(container.depart_time), OrEmpty(container.depart_airport),
           OrEmpty(container.depart_terminal), OrEmpty(container.arrive_time),
           OrEmpty(container.arrive_airport), OrEmpty(container.arrive_terminal),
           OrEmpty(container.price_span), container.other_text>>, " ")

\* ------------------------------------------------------ record extraction

\* flight_info = {'序号': index}: a dict whose other keys are still missing
NewFlightInfo(index) ==
    [idx |-> index, airline |-> None, flightNo |-> None, departTime |-> None,
     departAirport |-> None, departTerminal |-> None, arriveTime |-> None,
     arriveAirport |-> None, arriveTerminal |-> None, price |-> None]

\* the text of an element that was found, stripped
StrippedText(ele) == IF IsSome(ele) THEN Some(Strip(Get(ele))) ELSE None

\* flight number: .plane-No text, then the id attributes, then container.text
PlaneNoOf(container) ==
    LET plane_no_span == SafeEle(container, "plane_no_span")
        plane_text == IF IsSome(plane_no_span)
                      THEN Strip(ReplaceChar(Get(plane_no_span), Nbsp, " "))
                      ELSE <<>>
    IN  IF plane_text # <<>> THEN SearchFlightNo(plane_text) ELSE None

IdFlightNoOf(container) ==
    LET airline_id == SafeEle(container, "airline_id")
        comfort_id == SafeEle(container, "comfort_id")
        id1 == IF IsSome(airline_id) THEN SearchFlightNo(Get(airline_id)) ELSE None
        id2 == IF IsSome(comfort_id) THEN SearchFlightNo(Get(comfort_id)) ELSE None
    IN  IF IsSome(id1) THEN id1 ELSE id2

FlightNoOf(container) ==
    IF IsSome(PlaneNoOf(container)) THEN PlaneNoOf(container)
    ELSE IF IsSome(IdFlightNoOf(container)) THEN IdFlightNoOf(container)
    ELSE SearchFlightNo(ContainerText(container))

\* the elements whose text is read whenever they are found
AlwaysRead ==
    {"airline_span", "plane_no_span", "depart_time", "depart_airport",
     "depart_terminal", "arrive_time", "arrive_airport", "arrive_terminal",
     "price_span"}

\* a text or attribute access of the extraction raises
TextAccessRaises(container) ==
    \/ \E f \in AlwaysRead :
          f \in container.text_fails /\ IsSome(SafeEle(container, f))
    \/ /\ ~IsSome(PlaneNoOf(container))
       /\ \/ \E f \in {"airline_id", "comfort_id"} :
                f \in container.text_fails /\ IsSome(SafeEle(container, f))
          \/ /\ ~IsSome(IdFlightNoOf(container))
             /\ "text" \in container.text_fails

\* arrival time: the "+1 day" marker gets a space in front
ArriveTimeOf(container) ==
    IF IsSome(SafeEle(container, "arrive_time"))
    THEN LET arrival_text == Strip(Get(SafeEle(container, "arrive_time")))
             marker == <<"+", "1", Tian>>
         IN  IF Contains(arrival_text, marker)
             THEN Some(ReplaceAll(arrival_text, marker, <<" ">> \o marker))
             ELSE Some(arrival_text)
    ELSE None

\* C17 mutant: the first digit run is taken without the currency symbol
PriceOfDigitsOnly(container) ==
    IF IsSome(SafeEle(container, "price_span"))
    THEN LET price_text == Strip(Get(SafeEle(container, "price_span")))
         IN  IF Contains(price_text, <<Yen>>) THEN Some(price_text)
             ELSE SearchDigits(price_text)
    ELSE None

\* price: kept when it holds the currency symbol, else symbol + first digit run
PriceOf(container) ==
    IF IsSome(SafeEle(container, "price_span"))
    THEN LET price_text == Strip(Get(SafeEle(container, "price_span")))
         IN  IF Contains(price_text, <<Yen>>) THEN Some(price_text)
             ELSE LET price_match == SearchDigits(price_text)
                  IN  IF IsSome(price_match)
                      THEN Some(<<Yen>> \o Get(price_match))
                      ELSE None
    ELSE None

\* the fields _parse_flight_container sets when no access raises
FieldsOf(container, index) ==
    [NewFlightInfo(index) EXCEPT
        !.airline = StrippedText(SafeEle(container, "airline_span")),
        !.flightNo = FlightNoOf(container),
        !.departTime = StrippedText(SafeEle(container, "depart_time")),
        !.departAirport = StrippedText(SafeEle(container, "depart_airport")),
        !.departTerminal = StrippedText(SafeEle(container, "depart_terminal")),
        !.arriveTime = ArriveTimeOf(container),
        !.arriveAirport = StrippedText(SafeEle(container, "arrive_airport")),
        !.arriveTerminal = StrippedText(SafeEle(container, "arrive_terminal")),
        !.price = PriceOf(container)]

\* C16 mutant: any extracted field makes the record acceptable
AcceptedByAnyField(flight_info) ==
    \E f \in DOMAIN flight_info \ {"idx"} : IsSome(flight_info[f])

\* C13 mutant: the record is returned whatever it holds
AcceptAlways(flight_info) == Some(flight_info)

\* if any(key in flight_info for key in [flight number, departure time, price])
Accepted(flight_info) ==
    \/ IsSome(flight_info.flightNo)
    \/ IsSome(flight_info.departTime)
    \/ IsSome(flight_info.price)

\* the return of _parse_flight_container once the fields were read
AcceptOrAbsent(flight_info) ==
    IF Accepted(flight_info) THEN Some(flight_info) ELSE None

\* _parse_flight_container: Some(flight_info); None when the container
\* yields none of flight number, departure time and price, and None from
\* the except clause when an access raised
ParseFlightContainer(container, index) ==
    IF TextAccessRaises(container) THEN None
    ELSE AcceptOrAbsent(FieldsOf(container, index))

\* _make_flight_key: the six identifying fields joined with "|", bars stripped
MakeFlightKey(flight_info) ==
    StripChars(Join(<<OrEmpty(flight_info.flightNo),
                      OrEmpty(flight_info.departTime),
                      OrEmpty(flight_info.arriveTime),
                      OrEmpty(flight_info.departAirport),
                      OrEmpty(flight_info.arriveAirport),
                      OrEmpty(flight_info.airline)>>, Bar), {Bar})

\* ------------------------------------------------------- the modelled page

\* an ordinary flight container: carrier "MU", flight number 96 + i
RegularItem(i) ==
    [EmptyContainer EXCEPT
        !.airline_span = Some(IF i % 2 = 0 THEN <<"C", "A">> ELSE <<"M", "U">>),
        !.plane_no_span = Some(<<"M", "U">> \o ToText(96 + i) \o <<Nbsp>>),
        !.depart_time = Some(<<"0", "8", ":">> \o ToText(10 + i)),
        !.depart_airport = Some(<<"P", "E", "K">>),
        !.arrive_time = Some(<<"1", "1", ":">> \o ToText(10 + i)),
        !.arrive_airport = Some(<<"S", "H", "A">>),
        !.price_span = Some(<<Yen>> \o ToText(400 + 10 * i))]

(***************************************************************************)
(* The containers the page can show, in document order.  The first five    *)
(* are the special shapes: 1 yields no field at all; 2 is a full flight;   *)
(* 3 has a price only (empty identity key); 4 has a departure time only    *)
(* (a key, but no flight number); 5 is the flight of 2 again with another  *)
(* price, terminal and no currency symbol (same identity key).  Then the   *)
(* faulty ones: 6 is a full flight whose airline lookup raises; 7 is a     *)
(* full flight whose airline text cannot be read; 8 shows an airline, a    *)
(* departure and an arrival time, and its departure-time lookup raises;    *)
(* 9 is a full flight whose price text has the yen sign after a word; 10   *)
(* is a full flight whose airline element holds a blank text; 11 shows an  *)
(* arrival time, the text of the departure time of 4, and a price.         *)
(***************************************************************************)
PageItems ==
    [i \in 1..MaxItems |->
        CASE i = 1 -> EmptyContainer
          [] i = 2 -> [RegularItem(5) EXCEPT !.depart_terminal = Some(<<"T", "2">>)]
          [] i = 3 -> [EmptyContainer EXCEPT !.price_span = Some(<<"3", "0", "0", Qi>>)]
          [] i = 4 -> [EmptyContainer EXCEPT !.depart_time = Some(<<"0", "9", ":", "3", "0">>)]
          [] i = 5 -> [RegularItem(5) EXCEPT
                          !.plane_no_span = Some(<<"x">>),
                          !.comfort_id = Some(<<"c", "-", "M", "U", "1", "0", "1">>),
                          !.depart_terminal = Some(<<"T", "3">>),
                          !.price_span = Some(<<"9", "9", "9", Qi>>)]
          [] i = 6 -> [RegularItem(6) EXCEPT !.lookup_fails = {"airline_span"}]
          [] i = 7 -> [RegularItem(7) EXCEPT !.text_fails = {"airline_span"}]
          [] i = 8 -> [EmptyContainer EXCEPT
                          !.airline_span = Some(<<"C", "A">>),
                          !.depart_time = Some(<<"0", "8", ":", "1", "8">>),
                          !.arrive_time = Some(<<"1", "1", ":", "1", "8">>),
                          !.lookup_fails = {"depart_time"}]
          [] i = 9 -> [RegularItem(9) EXCEPT
                          !.price_span = Some(<<"l", "o", "w", Yen>> \o ToText(490))]
          [] i = 10 -> [RegularItem(10) EXCEPT !.airline_span = Some(<<" ">>)]
          [] i = 11 -> [EmptyContainer EXCEPT
                           !.arrive_time = Some(<<"0", "9", ":", "3", "0">>),
                           !.price_span = Some(<<Yen>> \o ToText(510))]
          [] OTHER -> RegularItem(i)]

\* what page.eles returns: the containers lo..hi of the page, in order
Window(lo, hi) == [k \in 1..Max(0, hi - lo + 1) |-> lo + k - 1]

\* the container lists one read of the page can return
Windows == {Window(1, 0), Window(1, 5), Window(4, 6), Window(1, MaxItems)}

\* --------------------------------------------------- inputs and validation

\* datetime.now().date(), as <<year, month, day>>
Today == <<2025, 6, 15>>

IsLeap(y) == (y % 4 = 0 /\ y % 100 # 0) \/ y % 400 = 0
DaysIn(y, m) ==
    IF m = 2 THEN (IF IsLeap(y) THEN 29 ELSE 28)
    ELSE IF m \in {4, 6, 9, 11} THEN 30 ELSE 31

\* s.split(sep) for a single character sep
RECURSIVE Split(_, _)
Split(s, sep) ==
    IF \E i \in 1..Len(s) : s[i] = sep
    THEN LET i == CHOOSE j \in 1..Len(s) :
                    s[j] = sep /\ \A k \in 1..(j - 1) : s[k] # sep
         IN  <<SubSeq(s, 1, i - 1)>> \o Split(SubSeq(s, i + 1, Len(s)), sep)
    ELSE <<s>>

(***************************************************************************)
(* datetime.strptime(text, "%Y-%m-%d"): Some(<<y, m, d>>), or None where   *)
(* it raises ValueError.  %Y takes exactly four digits, %m and %d one or   *)
(* two; the three numbers must name a day of the calendar.                 *)
(***************************************************************************)
Strptime(text) ==
    LET parts == Split(text, "-")
    IN  IF /\ Len(parts) = 3
           /\ Len(parts[1]) = 4 /\ IsDigitStr(parts[1])
           /\ Len(parts[2]) \in 1..2 /\ IsDigitStr(parts[2])
           /\ Len(parts[3]) \in 1..2 /\ IsDigitStr(parts[3])
        THEN LET y == ToInt(parts[1])
                 m == ToInt(parts[2])
                 d == ToInt(parts[3])
             IN  IF y >= 1 /\ m \in 1..12 /\ d >= 1 /\ d <= DaysIn(y, m)
                 THEN Some(<<y, m, d>>)
                 ELSE None
        ELSE None

\* date order
DateBefore(a, b) ==
    \/ a[1] < b[1]
    \/ a[1] = b[1] /\ a[2] < b[2]
    \/ a[1] = b[1] /\ a[2] = b[2] /\ a[3] < b[3]

\* utils.cities_dict.get_airport_code: the airport code of a city, or None
get_airport_code(city) ==
    CASE city = "Beijing" -> Some("bjs")
      [] city = "Shanghai" -> Some("sha")
      [] OTHER -> None

\* the departure_city and destination_city arguments tried
DepartureCities == {"", "Atlantis", "Beijing"}
DestinationCities == {"", "Atlantis", "Shanghai"}

\* the departure_date arguments tried: empty, not a date, month 13, a day the
\* month does not have, a past date, yesterday written unpadded, today
Dates ==
    {<<>>,
     <<"s", "o", "o", "n">>,
     <<"2", "0", "2", "5", "-", "1", "3", "-", "0", "1">>,
     <<"2", "0", "2", "5", "-", "0", "2", "-", "3", "0">>,
     <<"2", "0", "2", "0", "-", "0", "1", "-", "0", "1">>,
     <<"2", "0", "2", "5", "-", "6", "-", "1", "4">>,
     <<"2", "0", "2", "5", "-", "0", "6", "-", "1", "5">>}

\* --------------------------------------------------------------- statistics

\* the default of flight.get: "unknown", as a text
Unknown == <<"wei", "zhi">>

\* flight['price'].replace(yen, '').replace(qi, '')
PriceStr(flight) ==
    CHOOSE r \in {ReplaceAll(without_yen, <<Qi>>, <<>>) :
                     without_yen \in {ReplaceAll(Get(flight.price),
                                                 <<Yen>>, <<>>)}} : TRUE

\* if price_str.isdigit(): prices.append(int(price_str))
AppendDigits(prices, price_str) ==
    IF IsDigitStr(price_str) THEN Append(prices, ToInt(price_str)) ELSE prices

\* one pass of the loop over flights: the price is appended when it is there
\* and its digits remain after the symbol and the qualifier are removed
AppendPrice(prices, flight) ==
    IF IsSome(flight.price) /\ Get(flight.price) # Unknown
    THEN CHOOSE r \in {AppendDigits(prices, price_str) :
                          price_str \in {PriceStr(flight)}} : TRUE
    ELSE prices

RECURSIVE PricesFrom(_, _, _)
PricesFrom(prices, fl, k) ==
    IF k > Len(fl) THEN prices
    ELSE CHOOSE r \in {PricesFrom(next, fl, k + 1) :
                          next \in {AppendPrice(prices, fl[k])}} : TRUE

\* one pass of the loop over flights: airlines[airline] = airlines.get(...) + 1
CountAirline(airlines, airline) ==
    IF airline \in DOMAIN airlines
    THEN [airlines EXCEPT ![airline] = @ + 1]
    ELSE airlines @@ (airline :> 1)

\* flight.get(airline, "unknown")
AirlineOf(flight) == IF IsSome(flight.airline) THEN Get(flight.airline) ELSE Unknown

\* C19 mutant: a flight without airline is not counted
AirlinesFromNamedOnly(airlines, fl, k) ==
    LET named == SelectSeq(fl, LAMBDA flight : IsSome(flight.airline))
    IN  [a \in {Get(named[i].airline) : i \in 1..Len(named)} |->
            Cardinality({i \in 1..Len(named) : Get(named[i].airline) = a})]

RECURSIVE AirlinesFrom(_, _, _)
AirlinesFrom(airlines, fl, k) ==
    IF k > Len(fl) THEN airlines
    ELSE CHOOSE r \in {AirlinesFrom(next, fl, k + 1) :
                          next \in {CountAirline(airlines, AirlineOf(fl[k]))}} :
             TRUE

\* sum(prices)
RECURSIVE SumFrom(_, _)
SumFrom(s, k) == IF k > Len(s) THEN 0 ELSE s[k] + SumFrom(s, k + 1)
SeqSum(s) == SumFrom(s, 1)

\* min(prices) and max(prices)
SeqMin(s) == CHOOSE x \in {s[i] : i \in 1..Len(s)} :
                \A i \in 1..Len(s) : x <= s[i]
SeqMax(s) == CHOOSE x \in {s[i] : i \in 1..Len(s)} :
                \A i \in 1..Len(s) : x >= s[i]

\* C18 mutant: the average is rounded up
StatisticsOfRoundedUp(prices) ==
    IF prices = <<>> THEN None
    ELSE Some([min_price |-> SeqMin(prices), max_price |-> SeqMax(prices),
               avg_price |-> (SeqSum(prices) + Len(prices) - 1) \div Len(prices)])

\* if prices: result["price_statistics"] = {min, max, sum // len}
StatisticsOf(prices) ==
    IF prices = <<>> THEN None
    ELSE Some([min_price |-> SeqMin(prices), max_price |-> SeqMax(prices),
               avg_price |-> SeqSum(prices) \div Len(prices)])

\* result["price_statistics"], None when the key is not set
PriceStatistics(fl) ==
    CHOOSE r \in {StatisticsOf(prices) :
                     prices \in {PricesFrom(<<>>, fl, 1)}} : TRUE

\* result["airline_statistics"], None when the key is not set
AirlineStatistics(fl) ==
    IF fl = <<>> THEN None ELSE Some(AirlinesFrom(<<>>, fl, 1))

\* the error envelope of searchFlightRoutes
ErrorResult(code, msg) ==
    [status |-> "error", error_code |-> code, message |-> msg,
     flight_count |-> 0, flights |-> <<>>,
     price_statistics |-> None, airline_statistics |-> None]

\* C4 mutant: the fault leaves searchFlightRoutes instead of being answered
OuterExceptRaises(msg) ==
    [status |-> "raised", error_code |-> "", message |-> msg,
     flight_count |-> 0, flights |-> <<>>,
     price_statistics |-> None, airline_statistics |-> None]

\* the except clause around the whole body of searchFlightRoutes
OuterExcept(msg) == ErrorResult("SEARCH_FAILED", msg)

\* C6 mutant: a date that does not parse is reported as a missing parameter
ValidationErrorCoarse(departure_city, destination_city, departure_date, driver, dict) ==
    IF departure_city = "" \/ destination_city = "" \/ departure_date = <<>>
    THEN "INVALID_PARAMS"
    ELSE IF ~driver THEN "DRISSION_PAGE_NOT_AVAILABLE"
    ELSE IF ~dict THEN "CITIES_DICT_NOT_AVAILABLE"
    ELSE IF ~IsSome(Strptime(departure_date)) THEN "INVALID_PARAMS"
    ELSE IF DateBefore(Get(Strptime(departure_date)), Today) THEN "PAST_DATE"
    ELSE IF ~IsSome(get_airport_code(departure_city))
         THEN "INVALID_DEPARTURE_CITY"
    ELSE IF ~IsSome(get_airport_code(destination_city))
         THEN "INVALID_DESTINATION_CITY"
    ELSE "OK"

\* C7 mutant: the destination city is not checked
ValidationErrorNoDestination(departure_city, destination_city, departure_date, driver, dict) ==
    IF departure_city = "" \/ destination_city = "" \/ departure_date = <<>>
    THEN "INVALID_PARAMS"
    ELSE IF ~driver THEN "DRISSION_PAGE_NOT_AVAILABLE"
    ELSE IF ~dict THEN "CITIES_DICT_NOT_AVAILABLE"
    ELSE IF ~IsSome(Strptime(departure_date)) THEN "INVALID_DATE_FORMAT"
    ELSE IF DateBefore(Get(Strptime(departure_date)), Today) THEN "PAST_DATE"
    ELSE IF ~IsSome(get_airport_code(departure_city))
         THEN "INVALID_DEPARTURE_CITY"
    ELSE "OK"

\* C27 mutant: the cities are checked before the date
ValidationErrorCitiesFirst(departure_city, destination_city, departure_date, driver, dict) ==
    IF departure_city = "" \/ destination_city = "" \/ departure_date = <<>>
    THEN "INVALID_PARAMS"
    ELSE IF ~driver THEN "DRISSION_PAGE_NOT_AVAILABLE"
    ELSE IF ~dict THEN "CITIES_DICT_NOT_AVAILABLE"
    ELSE IF ~IsSome(get_airport_code(departure_city))
         THEN "INVALID_DEPARTURE_CITY"
    ELSE IF ~IsSome(get_airport_code(destination_city))
         THEN "INVALID_DESTINATION_CITY"
    ELSE IF ~IsSome(Strptime(departure_date)) THEN "INVALID_DATE_FORMAT"
    ELSE IF DateBefore(Get(Strptime(departure_date)), Today) THEN "PAST_DATE"
    ELSE "OK"

(***************************************************************************)
(* The checks searchFlightRoutes makes before it builds a searcher, in the *)
(* order of the code: the error code of the first check that fails, or     *)
(* "OK" when all pass.                                                     *)
(***************************************************************************)
ValidationError(departure_city, destination_city, departure_date, driver, dict) ==
    IF departure_city = "" \/ destination_city = "" \/ departure_date = <<>>
    THEN "INVALID_PARAMS"
    ELSE IF ~driver THEN "DRISSION_PAGE_NOT_AVAILABLE"
    ELSE IF ~dict THEN "CITIES_DICT_NOT_AVAILABLE"
    ELSE LET flight_date == Strptime(departure_date)
         IN  IF ~IsSome(flight_date) THEN "INVALID_DATE_FORMAT"
             ELSE IF DateBefore(Get(flight_date), Today) THEN "PAST_DATE"
             ELSE IF ~IsSome(get_airport_code(departure_city))
                  THEN "INVALID_DEPARTURE_CITY"
             ELSE IF ~IsSome(get_airport_code(destination_city))
                  THEN "INVALID_DESTINATION_CITY"
             ELSE "OK"

\* the argument triples tried
Inputs ==
    [departure_city : DepartureCities, destination_city : DestinationCities,
     departure_date : Dates]

\* datetime.strptime of each date tried, computed once
ParsedDates == [departure_date \in Dates |-> Strptime(departure_date)]

\* the outcome of the checks for each input and each state of the two
\* dependencies, computed once
ValidationCodes ==
    [a \in Inputs |-> [driver \in BOOLEAN |-> [dict \in BOOLEAN |->
        ValidationError(a.departure_city, a.destination_city,
                        a.departure_date, driver, dict)]]]

\* ------------------------------------------------------------ deduplication

\* the records of the page's containers, extracted once (index = position)
ParsedItems == [i \in 1..MaxItems |-> ParseFlightContainer(PageItems[i], i)]

\* _parse_flight_container(container, index) for container item of the page
WithIndex(parsed, index) ==
    IF IsSome(parsed) THEN Some([Get(parsed) EXCEPT !.idx = index]) ELSE None

Extract(item, index) == WithIndex(ParsedItems[item], index)

\* _make_flight_key of the record of each container, computed once: the key
\* does not depend on the index the record was extracted with
ItemKeys ==
    [i \in 1..MaxItems |->
        IF IsSome(ParsedItems[i]) THEN MakeFlightKey(Get(ParsedItems[i]))
        ELSE <<>>]

(***************************************************************************)
(* One pass of the loop of _collect_visible_flights over container k of    *)
(* the list read from the page.  acc holds _scrolled_flights,              *)
(* _scrolled_flight_keys and new_count.                                    *)
(***************************************************************************)
\* C1 mutant: the merge without the lookup in the key set
CollectKeyedNoLookup(acc, flight_info, flight_key) ==
    IF flight_key = <<>> THEN acc
    ELSE [flights |-> Append(acc.flights, flight_info),
          keys |-> acc.keys \cup {flight_key},
          new_count |-> acc.new_count + 1]

\* C8 mutant: a record with an empty key is added as new
CollectKeyedKeepsKeyless(acc, flight_info, flight_key) ==
    IF flight_key = <<>>
    THEN [acc EXCEPT !.flights = Append(@, flight_info), !.new_count = @ + 1]
    ELSE IF flight_key \in acc.keys THEN acc
    ELSE [flights |-> Append(acc.flights, flight_info),
          keys |-> acc.keys \cup {flight_key},
          new_count |-> acc.new_count + 1]

CollectKeyed(acc, flight_info, flight_key) ==
    IF flight_key = <<>> THEN acc
    ELSE IF flight_key \in acc.keys THEN acc
    ELSE [flights |-> Append(acc.flights, flight_info),
          keys |-> acc.keys \cup {flight_key},
          new_count |-> acc.new_count + 1]

CollectInfo(acc, flight_info, flight_key) ==
    IF ~IsSome(flight_info) THEN acc
    ELSE CollectKeyed(acc, Get(flight_info), flight_key)

CollectOne(acc, item, index) ==
    CollectInfo(acc, Extract(item, index), ItemKeys[item])

RECURSIVE CollectFrom(_, _, _)
CollectFrom(acc, flight_elements, k) ==
    IF k > Len(flight_elements) THEN acc
    ELSE CHOOSE r \in {CollectFrom(next, flight_elements, k + 1) :
                          next \in {CollectOne(acc, flight_elements[k], k)}} : TRUE

\* _collect_visible_flights over the containers read from the page
CollectVisibleFlights(scrolled, keys, flight_elements) ==
    CollectFrom([flights |-> scrolled, keys |-> keys, new_count |-> 0],
                flight_elements, 1)

(***************************************************************************)
(* One pass of the loop of _parse_flights: a record is taken only with a   *)
(* flight number, and then only when its key was not seen before.          *)
(***************************************************************************)
ParseKeyed(acc, flight_info, flight_key) ==
    IF flight_key # <<>> /\ flight_key \in acc.keys THEN acc
    ELSE [flights |-> Append(acc.flights, flight_info),
          keys |-> IF flight_key # <<>>
                   THEN acc.keys \cup {flight_key} ELSE acc.keys]

ParseInfo(acc, flight_info, flight_key) ==
    IF IsSome(flight_info) /\ OrEmpty(Get(flight_info).flightNo) # <<>>
    THEN ParseKeyed(acc, Get(flight_info), flight_key)
    ELSE acc

ParseOne(acc, item, index) ==
    ParseInfo(acc, Extract(item, index), ItemKeys[item])

RECURSIVE ParseFrom(_, _, _)
ParseFrom(acc, flight_containers, k) ==
    IF k > Len(flight_containers) THEN acc
    ELSE CHOOSE r \in {ParseFrom(next, flight_containers, k + 1) :
                          next \in {ParseOne(acc, flight_containers[k], k)}} : TRUE

\* for idx, item in enumerate(flights, 1): item['序号'] = idx
Renumber(fl) == [i \in 1..Len(fl) |-> [fl[i] EXCEPT !.idx = i]]

\* C15 mutant: without the wrapper the final pass returns no flight
ParseFlightsNeedsWrapper(scrolled, keys, found, flight_containers) ==
    IF found # "found" THEN [flights |-> <<>>, keys |-> keys]
    ELSE IF flight_containers = <<>> THEN [flights |-> scrolled, keys |-> keys]
    ELSE CHOOSE r \in
            {[flights |-> Renumber(acc.flights), keys |-> acc.keys] :
             acc \in {ParseFrom([flights |-> scrolled, keys |-> keys],
                                flight_containers, 1)}} : TRUE

(***************************************************************************)
(* _parse_flights.  found is what page.ele('css:.body-wrapper') gave:      *)
(* "raise" (the lookup failed), "absent" (no such element) or "found";     *)
(* flight_containers is the list read inside the element.  Gives the       *)
(* returned list and the key set afterwards.                               *)
(***************************************************************************)
ParseFlights(scrolled, keys, found, flight_containers) ==
    IF found # "found" \/ flight_containers = <<>>
    THEN [flights |-> scrolled, keys |-> keys]
    ELSE CHOOSE r \in
            {[flights |-> Renumber(acc.flights), keys |-> acc.keys] :
             acc \in {ParseFrom([flights |-> scrolled, keys |-> keys],
                                flight_containers, 1)}} : TRUE

\* C2 mutant: the end of a round without the break at 30 records
RoundEndNoCap(loop, n_scrolled, new_in_round) ==
    LET stable == /\ new_in_round = 0
                  /\ loop.current_height = loop.prev_height
                  /\ loop.current_count <= loop.prev_count
        upd == IF stable
               THEN [loop EXCEPT !.same_rounds = loop.same_rounds + 1]
               ELSE [loop EXCEPT !.same_rounds = 0,
                                 !.prev_count = Max(loop.prev_count,
                                                    loop.current_count),
                                 !.prev_height = loop.current_height]
    IN  IF upd.same_rounds >= stable_rounds THEN [upd EXCEPT !.exit = "stable"]
        ELSE IF upd.i >= max_rounds THEN [upd EXCEPT !.exit = "rounds"]
        ELSE [upd EXCEPT !.i = upd.i + 1, !.exit = "next"]

\* C10 mutant: prev_count follows the current round instead of the maximum
RoundEndLastCount(loop, n_scrolled, new_in_round) ==
    IF n_scrolled >= FlightCap
    THEN [loop EXCEPT !.exit = "cap"]
    ELSE LET stable == /\ new_in_round = 0
                       /\ loop.current_height = loop.prev_height
                       /\ loop.current_count <= loop.prev_count
             upd == IF stable
                    THEN [loop EXCEPT !.same_rounds = loop.same_rounds + 1]
                    ELSE [loop EXCEPT !.same_rounds = 0,
                                      !.prev_count = loop.current_count,
                                      !.prev_height = loop.current_height]
         IN  IF upd.same_rounds >= stable_rounds THEN [upd EXCEPT !.exit = "stable"]
             ELSE IF upd.i >= max_rounds THEN [upd EXCEPT !.exit = "rounds"]
             ELSE [upd EXCEPT !.i = upd.i + 1, !.exit = "next"]

(***************************************************************************)
(* The end of one round of _intelligent_scroll_for_content: from the       *)
(* loop's variables and what the round saw, the variables afterwards and   *)
(* whether the loop goes on ("next"), or why it ends: "cap" (30 records),  *)
(* "stable", or "rounds" (the range is exhausted).                         *)
(***************************************************************************)
RoundEnd(loop, n_scrolled, new_in_round) ==
    IF n_scrolled >= FlightCap
    THEN [loop EXCEPT !.exit = "cap"]
    ELSE LET stable == /\ new_in_round = 0
                       /\ loop.current_height = loop.prev_height
                       /\ loop.current_count <= loop.prev_count
             upd == IF stable
                    THEN [loop EXCEPT !.same_rounds = loop.same_rounds + 1]
                    ELSE [loop EXCEPT !.same_rounds = 0,
                                      !.prev_count = Max(loop.prev_count,
                                                         loop.current_count),
                                      !.prev_height = loop.current_height]
         IN  IF upd.same_rounds >= stable_rounds THEN [upd EXCEPT !.exit = "stable"]
             ELSE IF upd.i >= max_rounds THEN [upd EXCEPT !.exit = "rounds"]
             ELSE [upd EXCEPT !.i = upd.i + 1, !.exit = "next"]

\* -------------------------------------------------------------------- state

\* the calls of searchFlightRoutes
Calls == {1, 2}

\* the scrollHeight values the page can report (0 also when the read fails)
Heights == {0, 900}

VARIABLES
    DRISSION_PAGE_AVAILABLE, \* module global: the browser driver was imported
    cities_dict_available,   \* module global: get_airport_code, get_city_name
    auto_port,               \* environment: FLIGHT_SEARCH_AUTO_PORT is on and
                             \* the driver's options have auto_port
    args,                    \* per call: the three arguments
    pc,                      \* per call: the statement the call is at
    page,                    \* per call: searcher.page, the browser session
    port,                    \* per call: the control port of its session
    scrolled_flights,        \* per call: searcher._scrolled_flights
    scrolled_flight_keys,    \* per call: searcher._scrolled_flight_keys
    loop,                    \* per call: locals of _intelligent_scroll_for_content
    flights,                 \* per call: the list search_flights returned
    result,                  \* per call: the envelope returned
    wait,                    \* per call: locals of the polling loop it is in
    hist                     \* per call: history, read by the properties only

vars ==
    <<DRISSION_PAGE_AVAILABLE, cities_dict_available, auto_port, args, pc,
      page, port, scrolled_flights, scrolled_flight_keys, loop, flights, result, wait,
      hist>>

globals == <<DRISSION_PAGE_AVAILABLE, cities_dict_available, auto_port, args>>
caches == <<scrolled_flights, scrolled_flight_keys>>

NoResult ==
    [status |-> "none", error_code |-> "", message |-> "",
     flight_count |-> 0, flights |-> <<>>,
     price_statistics |-> None, airline_statistics |-> None]

SuccessResult(fl) ==
    [status |-> "success", error_code |-> "", message |-> "",
     flight_count |-> Len(fl), flights |-> fl,
     price_statistics |-> PriceStatistics(fl),
     airline_statistics |-> AirlineStatistics(fl)]

\* no polling loop is running; selector: the position in loading_selectors,
\* polls: the polls made since start_time, asleep: in time.sleep after a poll
NoWait == [selector |-> 0, polls |-> 0, asleep |-> FALSE]
LoadingStart == [NoWait EXCEPT !.selector = 1]

\* C20 mutant: the elapsed time never reaches the timeout
NeverTimedOut(polls) == FALSE

\* not (time.time() - start_time < timeout)
TimedOut(polls) == polls >= MaxPolls

\* the locals of the scroll loop before its first round; i = 0: not in the loop
NoLoop ==
    [i |-> 0, same_rounds |-> 0, prev_count |-> 0, prev_height |-> 0,
     current_count |-> 0, current_height |-> 0, exit |-> "next"]
LoopStart == [NoLoop EXCEPT !.i = 1]

(***************************************************************************)
(* History of a call.  opened, quit_calls: sessions constructed, calls of  *)
(* page.quit.  fault: the first step of search_flights that raised.        *)
(* first_seen: per identity key, the first record extracted with it.       *)
(* rounds: scroll rounds started.  scroll: how the current round scrolled. *)
(* last_count, last_height: what the round before saw.  hi_count: the      *)
(* largest count any earlier round saw.  run_prev, run_hi: the number of   *)
(* consecutive rounds, up to the last one, with no new record, the height  *)
(* of the round before, and a count not above that of the round before     *)
(* (run_prev) or not above hi_count (run_hi).  keyless: a valid record     *)
(* whose identity key is empty was extracted.  extracted: the containers   *)
(* of the page the extractor was applied to.  top: whether the loader, on  *)
(* returning, had attempted the scroll back to the top or skipped it.      *)
(* wrapper, final: what the lookup of the flight-list wrapper gave at      *)
(* content readiness and in the final pass.  stealth: the calls of         *)
(* _apply_stealth_js.  injected, hooks: how the stealth script and the     *)
(* installation of the network hooks ended, kept until the first round.    *)
(***************************************************************************)
NoHist ==
    [opened |-> 0, quit_calls |-> 0, fault |-> "none", first_seen |-> <<>>,
     keyless |-> FALSE, extracted |-> {}, top |-> "none", wrapper |-> "none",
     final |-> "none", stealth |-> 0, injected |-> "none", hooks |-> "none",
     rounds |-> 0, scroll |-> "none", last_count |-> 0, last_height |-> 0,
     hi_count |-> 0, run_prev |-> 0, run_hi |-> 0]

\* first_seen after the containers of one read were extracted in order
FirstSeenKeyed(fs, flight_info, key) ==
    IF key # <<>> /\ key \notin DOMAIN fs THEN fs @@ (key :> flight_info) ELSE fs

FirstSeenInfo(fs, flight_info, key) ==
    IF ~IsSome(flight_info) THEN fs
    ELSE FirstSeenKeyed(fs, Get(flight_info), key)

FirstSeenOne(fs, item, index) ==
    FirstSeenInfo(fs, Extract(item, index), ItemKeys[item])

RECURSIVE FirstSeenFrom(_, _, _)
FirstSeenFrom(fs, elements, k) ==
    IF k > Len(elements) THEN fs
    ELSE CHOOSE r \in {FirstSeenFrom(next, elements, k + 1) :
                          next \in {FirstSeenOne(fs, elements[k], k)}} : TRUE

\* a valid record without identity key
IsKeyless(flight_info) ==
    IsSome(flight_info) /\ MakeFlightKey(Get(flight_info)) = <<>>

\* the containers of the page that yield a valid record without identity key
KeylessItems == {i \in 1..MaxItems : IsKeyless(ParsedItems[i])}

\* the history after the containers of one read were extracted
SeenIn(h, elements) ==
    [h EXCEPT !.first_seen = FirstSeenFrom(@, elements, 1),
              !.keyless = @ \/ \E k \in 1..Len(elements) :
                                      elements[k] \in KeylessItems,
              !.extracted = @ \cup {elements[k] : k \in 1..Len(elements)}]

\* the control port of the driver's default options, and the ports auto_port
\* chooses from
NoPort == 0
FixedPort == 9222
AutoPorts == {9600 + k : k \in 0..Cardinality(Calls)}

\* the ports of the sessions that are open
PortsInUse == {port[c] : c \in {d \in Calls : page[d] = "open"}}

\* co.auto_port(): a port no open session uses
FreePort == CHOOSE p \in AutoPorts \ PortsInUse :
                \A q \in AutoPorts \ PortsInUse : p <= q

\* _apply_chromium_options: the port ChromiumPage(co) connects to
ControlPort(auto) == IF auto THEN FreePort ELSE FixedPort

Init ==
    /\ DRISSION_PAGE_AVAILABLE \in BOOLEAN
    /\ cities_dict_available \in BOOLEAN
    /\ auto_port = TRUE
    /\ \E a \in Inputs : args = [c \in Calls |-> a]
    /\ pc = [c \in Calls |-> IF c = 1 THEN "start" ELSE "idle"]
    /\ page = [c \in Calls |-> "none"]
    /\ port = [c \in Calls |-> NoPort]
    /\ scrolled_flights = [c \in Calls |-> <<>>]
    /\ scrolled_flight_keys = [c \in Calls |-> {}]
    /\ loop = [c \in Calls |-> NoLoop]
    /\ flights = [c \in Calls |-> <<>>]
    /\ result = [c \in Calls |-> NoResult]
    /\ wait = [c \in Calls |-> NoWait]
    /\ hist = [c \in Calls |-> NoHist]

\* ------------------------------------------------------------------ actions

\* searchFlightRoutes, the checks before the searcher is built
Validate(c) ==
    /\ pc[c] = "start"
    /\ \E code \in {ValidationCodes[args[c]][DRISSION_PAGE_AVAILABLE]
                                    [cities_dict_available]} :
           IF code = "OK"
           THEN /\ pc' = [pc EXCEPT ![c] = "construct"]
                /\ UNCHANGED result
           ELSE /\ pc' = [pc EXCEPT ![c] = "done"]
                /\ result' = [result EXCEPT ![c] = ErrorResult(code, code)]
    /\ UNCHANGED <<globals, port, wait, page, caches, loop, flights, hist>>

\* searcher = FlightRouteSearcher(headless): ChromiumPage(co) opens the
\* session, or the constructor raises and the outer except answers
Construct(c) ==
    /\ pc[c] = "construct"
    /\ \/ /\ DRISSION_PAGE_AVAILABLE
          /\ page' = [page EXCEPT ![c] = "open"]
          /\ port' = [port EXCEPT ![c] = ControlPort(auto_port)]
          /\ hist' = [hist EXCEPT ![c].opened = @ + 1]
          /\ pc' = [pc EXCEPT ![c] = "navigate"]
          /\ UNCHANGED result
       \/ /\ result' = [result EXCEPT ![c] = OuterExcept("construct")]
          /\ pc' = [pc EXCEPT ![c] = "done"]
          /\ UNCHANGED <<page, port, hist>>
    /\ UNCHANGED <<globals, wait, caches, loop, flights>>

\* the except clause of search_flights: log, return []
SearchFailed(c, step) ==
    /\ flights' = [flights EXCEPT ![c] = <<>>]
    /\ hist' = [hist EXCEPT ![c].fault = step]
    /\ pc' = [pc EXCEPT ![c] = "close"]

\* search_flights up to self.page.get(search_url)
Navigate(c) ==
    /\ pc[c] = "navigate"
    /\ IF \/ ~IsSome(get_airport_code(args[c].departure_city))
          \/ ~IsSome(get_airport_code(args[c].destination_city))
          \/ ~IsSome(ParsedDates[args[c].departure_date])
       THEN /\ flights' = [flights EXCEPT ![c] = <<>>]
            /\ pc' = [pc EXCEPT ![c] = "close"]
            /\ UNCHANGED hist
       ELSE \/ /\ pc' = [pc EXCEPT ![c] = "page_ready"]
               /\ UNCHANGED <<flights, hist>>
            \/ SearchFailed(c, "navigate")
    /\ UNCHANGED <<globals, port, wait, page, caches, loop, result>>

\* time.sleep between two polls of a waiting loop
Sleep(c) ==
    /\ wait[c].asleep
    /\ wait' = [wait EXCEPT ![c].asleep = FALSE,
                            ![c].polls = IF @ < MaxPolls THEN @ + 1 ELSE @]
    /\ UNCHANGED <<globals, port, pc, page, caches, loop, flights, result, hist>>

\* _wait_for_page_ready, its loop on document.readyState: the read is not
\* guarded and may raise; after the timeout the function goes on
WaitForPageReady(c) ==
    /\ pc[c] = "page_ready" /\ ~wait[c].asleep
    /\ IF TimedOut(wait[c].polls)
       THEN /\ pc' = [pc EXCEPT ![c] = "jquery_ready"]
            /\ wait' = [wait EXCEPT ![c] = NoWait]
            /\ UNCHANGED <<flights, hist>>
       ELSE \E ready_state \in {"loading", "complete", "raise"} :
               CASE ready_state = "complete" ->
                       /\ pc' = [pc EXCEPT ![c] = "jquery_ready"]
                       /\ wait' = [wait EXCEPT ![c] = NoWait]
                       /\ UNCHANGED <<flights, hist>>
                 [] ready_state = "loading" ->
                       /\ wait' = [wait EXCEPT ![c].asleep = TRUE]
                       /\ UNCHANGED <<pc, flights, hist>>
                 [] OTHER ->
                       /\ SearchFailed(c, "page_ready")
                       /\ wait' = [wait EXCEPT ![c] = NoWait]
    /\ UNCHANGED <<globals, port, page, caches, loop, result>>

\* a loop that polls a script until it answers true or the timeout passes;
\* a failure of the script is swallowed
GuardedWait(c, at, after) ==
    /\ pc[c] = at /\ ~wait[c].asleep
    /\ IF TimedOut(wait[c].polls)
       THEN /\ pc' = [pc EXCEPT ![c] = after]
            /\ wait' = [wait EXCEPT ![c] = NoWait]
       ELSE \E answer \in {"true", "false", "raise"} :
               IF answer = "true"
               THEN /\ pc' = [pc EXCEPT ![c] = after]
                    /\ wait' = [wait EXCEPT ![c] = NoWait]
               ELSE /\ wait' = [wait EXCEPT ![c].asleep = TRUE]
                    /\ UNCHANGED pc
    /\ UNCHANGED <<globals, port, page, caches, loop, flights, result, hist>>

\* _wait_for_jquery_ready, called by _wait_for_page_ready
WaitForJqueryReady(c) == GuardedWait(c, "jquery_ready", "ajax_ready")

\* _wait_for_ajax_complete, called by _wait_for_page_ready
WaitForAjaxComplete(c) == GuardedWait(c, "ajax_ready", "flight_content")

\* _wait_for_flight_content: its element lookups are not guarded.  Without
\* the wrapper nothing else is waited for; with the wrapper but without a
\* flight item the loading indicators are waited for
WaitForFlightContent(c) ==
    /\ pc[c] = "flight_content"
    /\ \E flight_container \in {"found", "absent", "raise"} :
          CASE flight_container = "absent" ->
                  /\ pc' = [pc EXCEPT ![c] = "stealth"]
                  /\ hist' = [hist EXCEPT ![c].wrapper = "absent"]
                  /\ UNCHANGED <<flights, wait>>
            [] flight_container = "found" ->
                  /\ hist' = [hist EXCEPT ![c].wrapper = "found"]
                  /\ \E flight_items \in {"found", "absent"} :
                        IF flight_items = "found"
                        THEN /\ pc' = [pc EXCEPT ![c] = "stealth"]
                             /\ UNCHANGED wait
                        ELSE /\ pc' = [pc EXCEPT ![c] = "content_loading"]
                             /\ wait' = [wait EXCEPT ![c] = LoadingStart]
                  /\ UNCHANGED flights
            [] OTHER ->
                  /\ SearchFailed(c, "flight_content")
                  /\ UNCHANGED wait
    /\ UNCHANGED <<globals, port, page, caches, loop, result>>

\* _wait_for_loading_complete goes on with the next selector, or returns
NextSelector(c, after) ==
    IF wait[c].selector >= LoadingSelectors
    THEN /\ pc' = [pc EXCEPT ![c] = after]
         /\ wait' = [wait EXCEPT ![c] = NoWait]
    ELSE /\ wait' = [wait EXCEPT ![c] = [NoWait EXCEPT !.selector =
                                              wait[c].selector + 1]]
         /\ UNCHANGED pc

\* _wait_for_loading_complete: one pass of the loop on the indicator of the
\* current selector.  No indicator: the function returns.  Timeout, or the
\* lookup raises: the next selector
WaitForLoadingComplete(c, at, after) ==
    /\ pc[c] = at /\ ~wait[c].asleep
    /\ IF TimedOut(wait[c].polls)
       THEN NextSelector(c, after)
       ELSE \E loader \in {"absent", "present", "raise"} :
               CASE loader = "absent" ->
                       /\ pc' = [pc EXCEPT ![c] = after]
                       /\ wait' = [wait EXCEPT ![c] = NoWait]
                 [] loader = "present" ->
                       /\ wait' = [wait EXCEPT ![c].asleep = TRUE]
                       /\ UNCHANGED pc
                 [] OTHER -> NextSelector(c, after)
    /\ UNCHANGED <<globals, port, page, caches, loop, flights, result, hist>>

\* _wait_for_loading_complete() at the end of _wait_for_flight_content
ContentLoading(c) == WaitForLoadingComplete(c, "content_loading", "stealth")

\* _wait_for_loading_complete(timeout=6) in a scroll round
RoundLoading(c) == WaitForLoadingComplete(c, "round_loading", "observe")

\* C21 mutant: the stealth script is run outside a try block
ApplyStealthJsUnguarded(c) ==
    /\ pc[c] = "stealth"
    /\ \E script \in {"ok", "raise"} :
          IF script = "ok"
          THEN /\ hist' = [hist EXCEPT ![c].stealth = @ + 1,
                                       ![c].injected = "ok"]
               /\ pc' = [pc EXCEPT ![c] = "install_logger"]
               /\ UNCHANGED flights
          ELSE /\ flights' = [flights EXCEPT ![c] = <<>>]
               /\ hist' = [hist EXCEPT ![c].stealth = @ + 1,
                                       ![c].injected = "failed",
                                       ![c].fault = "stealth"]
               /\ pc' = [pc EXCEPT ![c] = "close"]
    /\ UNCHANGED <<globals, port, wait, page, caches, loop, result>>

\* _apply_stealth_js: a failure of the script is swallowed
ApplyStealthJs(c) ==
    /\ pc[c] = "stealth"
    /\ \E script \in {"ok", "raise"} :
          hist' = [hist EXCEPT ![c].stealth = @ + 1,
                               ![c].injected = IF script = "ok"
                                               THEN "ok" ELSE "failed"]
    /\ pc' = [pc EXCEPT ![c] = "install_logger"]
    /\ UNCHANGED <<globals, port, wait, page, caches, loop, flights, result>>

\* C22 mutant: the caches are attributes of the class, shared by the searchers
InstallNetworkLoggerShared(c) ==
    /\ pc[c] = "install_logger"
    /\ scrolled_flights' = [d \in Calls |-> <<>>]
    /\ scrolled_flight_keys' = [d \in Calls |-> {}]
    /\ \E script \in {"ok", "raise"} :
          hist' = [hist EXCEPT ![c].hooks = IF script = "ok"
                                            THEN "ok" ELSE "failed"]
    /\ loop' = [loop EXCEPT ![c] = LoopStart]
    /\ pc' = [pc EXCEPT ![c] = "scroll"]
    /\ UNCHANGED <<globals, port, wait, page, flights, result>>

\* the caches are reset, _install_network_logger runs (failure swallowed),
\* and _intelligent_scroll_for_content sets up its loop
InstallNetworkLogger(c) ==
    /\ pc[c] = "install_logger"
    /\ scrolled_flights' = [scrolled_flights EXCEPT ![c] = <<>>]
    /\ scrolled_flight_keys' = [scrolled_flight_keys EXCEPT ![c] = {}]
    /\ \E script \in {"ok", "raise"} :
          hist' = [hist EXCEPT ![c].hooks = IF script = "ok"
                                            THEN "ok" ELSE "failed"]
    /\ loop' = [loop EXCEPT ![c] = LoopStart]
    /\ pc' = [pc EXCEPT ![c] = "scroll"]
    /\ UNCHANGED <<globals, port, wait, page, flights, result>>

\* _run_js_json: the dict it returns for what run_js did; it never raises
RunJsJson(script) ==
    CASE script = "report" -> "report"
      [] script = "nothing" -> "empty"
      [] OTHER -> "error_dict"

(***************************************************************************)
(* How a round scrolls.  script is what run_js did with the scroll script  *)
(* ("report", "nothing": it returned None, "raise"), fallback what the     *)
(* block around page.scroll(1200) did.  "js": the script ran and scrolled. *)
(* "failed": the script raised; _run_js_json turned that into a non-empty  *)
(* dict, so neither the except clause of the round nor the fallback runs.  *)
(* "fallback": the dict is empty and page.scroll(1200) ran.  "none": the   *)
(* dict is empty and the fallback raised.                                  *)
(***************************************************************************)
ScrollOf(script, fallback) ==
    LET scroll_meta == RunJsJson(script)
    IN  CASE scroll_meta = "report" -> "js"
          [] scroll_meta = "error_dict" -> "failed"
          [] OTHER -> IF fallback = "ok" THEN "fallback" ELSE "none"

\* a round begins: the scroll
RoundScroll(c) ==
    /\ pc[c] = "scroll"
    /\ \E script \in {"report", "nothing", "raise"}, fallback \in {"ok", "raise"} :
          hist' = [hist EXCEPT ![c].rounds = @ + 1,
                               ![c].scroll = ScrollOf(script, fallback),
                               ![c].injected = "none",
                               ![c].hooks = "none"]
    /\ pc' = [pc EXCEPT ![c] = "settle"]
    /\ UNCHANGED <<globals, port, wait, page, caches, loop, flights, result>>

\* time.sleep(2.5), then _wait_for_loading_complete(timeout=6) begins
RoundSettle(c) ==
    /\ pc[c] = "settle"
    /\ hist' = [hist EXCEPT ![c].scroll = "none"]
    /\ wait' = [wait EXCEPT ![c] = LoadingStart]
    /\ pc' = [pc EXCEPT ![c] = "round_loading"]
    /\ UNCHANGED <<globals, port, page, caches, loop, flights, result>>

\* the loader's locals and its part of the history, dropped when it returns;
\* top tells whether the scroll back to the top was attempted
LoaderReturns(c, top) ==
    /\ loop' = [loop EXCEPT ![c] = NoLoop]
    /\ hist' = [hist EXCEPT ![c].top = top,
                            ![c].rounds = 0, ![c].scroll = "none",
                            ![c].last_count = 0, ![c].last_height = 0,
                            ![c].hi_count = 0, ![c].run_prev = 0,
                            ![c].run_hi = 0]
    /\ pc' = [pc EXCEPT ![c] = "parse"]

\* the round counts the visible items and reads the content height; a
\* failing page.eles ends the loader through its outer except
RoundObserve(c) ==
    /\ pc[c] = "observe"
    /\ \/ /\ \E flight_elements \in Windows, height \in Heights :
                loop' = [loop EXCEPT ![c].current_count = Len(flight_elements),
                                     ![c].current_height = height]
          /\ pc' = [pc EXCEPT ![c] = "collect"]
          /\ UNCHANGED hist
       \/ LoaderReturns(c, "skipped")
    /\ UNCHANGED <<globals, port, wait, page, caches, flights, result>>

\* the history of the rounds, after a round that saw new_in_round new records
RoundHistory(h, lp, new_in_round) ==
    LET quiet == new_in_round = 0 /\ lp.current_height = h.last_height
    IN  [h EXCEPT
            !.run_prev = IF quiet /\ lp.current_count <= h.last_count
                         THEN h.run_prev + 1 ELSE 0,
            !.run_hi = IF quiet /\ lp.current_count <= h.hi_count
                       THEN h.run_hi + 1 ELSE 0,
            !.last_count = lp.current_count,
            !.last_height = lp.current_height,
            !.hi_count = Max(h.hi_count, lp.current_count)]

\* the round collects what is visible, then decides whether the loop ends
RoundFinish(c, got, seen) ==
    \E after \in {RoundEnd(loop[c], Len(got.flights), got.new_count)} :
        /\ scrolled_flights' = [scrolled_flights EXCEPT ![c] = got.flights]
        /\ scrolled_flight_keys' = [scrolled_flight_keys EXCEPT ![c] = got.keys]
        /\ loop' = [loop EXCEPT ![c] = after]
        /\ hist' = [hist EXCEPT
                      ![c] = RoundHistory(seen, loop[c], got.new_count)]
        /\ pc' = [pc EXCEPT ![c] = IF after.exit = "next"
                                   THEN "scroll" ELSE "scroll_top"]

RoundCollect(c) ==
    /\ pc[c] = "collect"
    /\ \/ \E flight_elements \in Windows :
             \E got \in {CollectVisibleFlights(scrolled_flights[c],
                              scrolled_flight_keys[c], flight_elements)},
                seen \in {SeenIn(hist[c], flight_elements)} :
                RoundFinish(c, got, seen)
       \/ \* page.eles raises inside _collect_visible_flights: return 0
          \E got \in {[flights |-> scrolled_flights[c],
                       keys |-> scrolled_flight_keys[c], new_count |-> 0]} :
             RoundFinish(c, got, hist[c])
    /\ UNCHANGED <<globals, port, wait, page, flights, result>>

\* after the loop: window.scrollTo(0, 0), page.scroll(-2000) when that
\* raises; a failure of the latter ends in the outer except
ScrollTop(c) ==
    /\ pc[c] = "scroll_top"
    /\ LoaderReturns(c, "attempted")
    /\ UNCHANGED <<globals, port, wait, page, caches, flights, result>>

\* flights = self._parse_flights(); return flights
ParseFlightsStep(c) ==
    /\ pc[c] = "parse"
    /\ \/ \E found \in {"raise", "absent"} :
             /\ flights' = [flights EXCEPT ![c] =
                    ParseFlights(scrolled_flights[c], scrolled_flight_keys[c],
                                 found, <<>>).flights]
             /\ hist' = [hist EXCEPT ![c].final = found]
             /\ UNCHANGED scrolled_flight_keys
       \/ \E flight_containers \in Windows :
             \E parsed \in {ParseFlights(scrolled_flights[c],
                                         scrolled_flight_keys[c],
                                         "found", flight_containers)} :
                 /\ flights' = [flights EXCEPT ![c] = parsed.flights]
                 /\ scrolled_flight_keys' =
                        [scrolled_flight_keys EXCEPT ![c] = parsed.keys]
                 /\ hist' = [hist EXCEPT ![c] =
                        [SeenIn(@, flight_containers) EXCEPT !.final = "found"]]
    /\ pc' = [pc EXCEPT ![c] = "close"]
    /\ UNCHANGED <<globals, port, wait, page, scrolled_flights, loop, result>>

\* C3 mutant: close only on the normal path, not in a finally clause
CloseUnlessFailed(c) ==
    /\ pc[c] = "close"
    /\ IF hist[c].fault # "none"
       THEN /\ pc' = [pc EXCEPT ![c] = "aggregate"]
            /\ UNCHANGED <<page, hist>>
       ELSE /\ page' = [page EXCEPT ![c] = "closed"]
            /\ pc' = [pc EXCEPT ![c] = "aggregate"]
            /\ hist' = [hist EXCEPT ![c].quit_calls = @ + 1]
    /\ UNCHANGED <<globals, port, wait, loop, result, flights, caches>>

\* finally: searcher.close(), which calls page.quit(); when quit raises, the
\* session may or may not be gone and the outer except answers
Close(c) ==
    /\ pc[c] = "close"
    /\ \/ /\ page' = [page EXCEPT ![c] = "closed"]
          /\ pc' = [pc EXCEPT ![c] = "aggregate"]
          /\ UNCHANGED <<result, flights, caches>>
       \/ /\ \E left \in {"open", "closed"} : page' = [page EXCEPT ![c] = left]
          /\ result' = [result EXCEPT ![c] = OuterExcept("close")]
          /\ pc' = [pc EXCEPT ![c] = "done"]
          /\ flights' = [flights EXCEPT ![c] = <<>>]
          /\ scrolled_flights' = [scrolled_flights EXCEPT ![c] = <<>>]
          /\ scrolled_flight_keys' = [scrolled_flight_keys EXCEPT ![c] = {}]
    /\ hist' = [hist EXCEPT ![c].quit_calls = @ + 1]
    /\ UNCHANGED <<globals, port, wait, loop>>

\* the success envelope is built and returned; the searcher is dropped
Aggregate(c) ==
    /\ pc[c] = "aggregate"
    /\ result' = [result EXCEPT ![c] = SuccessResult(flights[c])]
    /\ pc' = [pc EXCEPT ![c] = "done"]
    /\ flights' = [flights EXCEPT ![c] = <<>>]
    /\ scrolled_flights' = [scrolled_flights EXCEPT ![c] = <<>>]
    /\ scrolled_flight_keys' = [scrolled_flight_keys EXCEPT ![c] = {}]
    /\ UNCHANGED <<globals, port, wait, page, loop, hist>>

Step(c) ==
    \/ Validate(c)
    \/ Construct(c)
    \/ Navigate(c)
    \/ WaitForPageReady(c)
    \/ WaitForJqueryReady(c)
    \/ WaitForAjaxComplete(c)
    \/ Sleep(c)
    \/ WaitForFlightContent(c)
    \/ ContentLoading(c)
    \/ ApplyStealthJs(c)
    \/ InstallNetworkLogger(c)
    \/ RoundScroll(c)
    \/ RoundSettle(c)
    \/ RoundLoading(c)
    \/ RoundObserve(c)
    \/ RoundCollect(c)
    \/ ScrollTop(c)
    \/ ParseFlightsStep(c)
    \/ Close(c)
    \/ Aggregate(c)

\* one call of searchFlightRoutes
Next == Step(1)

Spec == Init /\ [][Next]_vars

\* the call is synchronous and runs on one thread: as long as every browser
\* call and every sleep returns, its next statement is executed
FairSpec == Spec /\ WF_vars(Next)

(***************************************************************************)
(* Two calls of searchFlightRoutes run interleaved, statement by           *)
(* statement.  The function takes no lock and starts no thread; the calls  *)
(* are those of a server that runs its tools concurrently.  Each call      *)
(* reads a page that stays as it is: every read of call c returns          *)
(* ConcurrentPage[c] (the two pages share the flights of containers 4 and  *)
(* 5), no browser call outside the guarded scripts fails and no wait runs  *)
(* into its timeout.                                                       *)
(***************************************************************************)
ConcurrentPage ==
    [c \in Calls |-> IF c = 1 THEN Window(1, 5) ELSE Window(4, 6)]

\* the containers of the page of call c
Shown(c) == {ConcurrentPage[c][k] : k \in 1..Len(ConcurrentPage[c])}

\* call c has read its page: in a round, or in the final pass
HasRead(c) ==
    \/ hist[c].last_count # 0
    \/ hist[c].top # "none"
    \/ hist[c].final # "none"

\* call c has met its steady page only
Steady(c) ==
    /\ hist[c].fault = "none"
    /\ result[c].status # "error"
    /\ wait[c].selector <= 1
    /\ wait[c].asleep => pc[c] = "page_ready"
    /\ hist[c].wrapper # "absent"
    /\ hist[c].final \in {"none", "found"}
    /\ hist[c].top # "skipped"
    /\ pc[c] = "collect" =>
          /\ loop[c].current_count = Len(ConcurrentPage[c])
          /\ loop[c].current_height = 900
    /\ hist[c].extracted = IF HasRead(c) THEN Shown(c) ELSE {}

ConcurrentInit ==
    /\ DRISSION_PAGE_AVAILABLE = TRUE
    /\ cities_dict_available = TRUE
    /\ auto_port \in BOOLEAN
    /\ \E a \in {b \in Inputs : ValidationCodes[b][TRUE][TRUE] = "OK"} :
          args = [c \in Calls |-> a]
    /\ pc = [c \in Calls |-> "start"]
    /\ page = [c \in Calls |-> "none"]
    /\ port = [c \in Calls |-> NoPort]
    /\ scrolled_flights = [c \in Calls |-> <<>>]
    /\ scrolled_flight_keys = [c \in Calls |-> {}]
    /\ loop = [c \in Calls |-> NoLoop]
    /\ flights = [c \in Calls |-> <<>>]
    /\ result = [c \in Calls |-> NoResult]
    /\ wait = [c \in Calls |-> NoWait]
    /\ hist = [c \in Calls |-> NoHist]

\* either call executes its next statement
ConcurrentNext ==
    \E c \in Calls :
        \/ Validate(c) /\ Steady(c)'
        \/ Construct(c) /\ Steady(c)'
        \/ Navigate(c) /\ Steady(c)'
        \/ WaitForPageReady(c) /\ Steady(c)'
        \/ WaitForJqueryReady(c) /\ Steady(c)'
        \/ WaitForAjaxComplete(c) /\ Steady(c)'
        \/ Sleep(c) /\ Steady(c)'
        \/ WaitForFlightContent(c) /\ Steady(c)'
        \/ ContentLoading(c) /\ Steady(c)'
        \/ ApplyStealthJs(c) /\ Steady(c)'
        \/ InstallNetworkLogger(c) /\ Steady(c)'
        \/ RoundScroll(c) /\ Steady(c)'
        \/ RoundSettle(c) /\ Steady(c)'
        \/ RoundLoading(c) /\ Steady(c)'
        \/ RoundObserve(c) /\ Steady(c)'
        \/ RoundCollect(c) /\ Steady(c)'
        \/ ScrollTop(c) /\ Steady(c)'
        \/ ParseFlightsStep(c) /\ Steady(c)'
        \/ Close(c) /\ Steady(c)'
        \/ Aggregate(c) /\ Steady(c)'

ConcurrentSpec == ConcurrentInit /\ [][ConcurrentNext]_vars

\* --------------------------------------------------------------- properties

\* the identity keys of the records of a list, in order
KeysOf(fl) == [i \in 1..Len(fl) |-> MakeFlightKey(fl[i])]

\* a record without its index
Unindexed(flight_info) == [flight_info EXCEPT !.idx = 0]

\* in fl no two records share a non-empty key, and the record of a key is the
\* first one extracted with it
FirstSeenOnly(fl, keys, first_seen) ==
    LET keyed == {i \in 1..Len(fl) : keys[i] # <<>>}
    IN  /\ Cardinality({keys[i] : i \in keyed}) = Cardinality(keyed)
        /\ \A i \in keyed :
              \E key \in {keys[i]} :
                 /\ key \in DOMAIN first_seen
                 /\ Unindexed(fl[i]) = Unindexed(first_seen[key])

\* the steps of a scroll round
InRound == {"settle", "round_loading", "observe", "collect"}

\* the call has returned
Returned(c) == pc[c] = "done"

(***************************************************************************)
(* C1.  During the scroll rounds, after the final pass and in the result,  *)
(* the flight list holds at most one record for each non-empty identity    *)
(* key, and that record is the first one extracted with the key.           *)
(***************************************************************************)
FirstSeenWins ==
    \A c \in Calls :
        /\ FirstSeenOnly(scrolled_flights[c], KeysOf(scrolled_flights[c]),
                         hist[c].first_seen)
        /\ FirstSeenOnly(flights[c], KeysOf(flights[c]), hist[c].first_seen)
        /\ FirstSeenOnly(result[c].flights, KeysOf(result[c].flights),
                         hist[c].first_seen)

\* a result that holds the later container of the repeated flight (terminal
\* T3, read first) after a read of the whole page, which shows the earlier
\* container of the same flight (terminal T2)
FirstSeenWinsWitness ==
    /\ Returned(1)
    /\ result[1].status = "success"
    /\ result[1].flight_count >= 10
    /\ \E i \in 1..Len(result[1].flights) :
          result[1].flights[i].departTerminal = Some(<<"T", "3">>)

(***************************************************************************)
(* C2.  The loader starts at most max_rounds scroll rounds, and no round   *)
(* is in progress or about to start while the deduplicated set holds       *)
(* FlightCap or more records.                                              *)
(***************************************************************************)
LoaderBounded ==
    \A c \in Calls :
        /\ hist[c].rounds <= max_rounds
        /\ pc[c] \in InRound \cup {"scroll"} =>
              Len(scrolled_flights[c]) < FlightCap

\* the loader has left its loop after two rounds, with the set at the cap
LoaderBoundedWitness ==
    /\ pc[1] = "scroll_top"
    /\ loop[1].exit = "cap"
    /\ hist[1].rounds = 2
    /\ Len(scrolled_flights[1]) >= FlightCap

(***************************************************************************)
(* C3, as stated.  When searchFlightRoutes has returned, close was called  *)
(* on every session it opened and no session is open.                      *)
(***************************************************************************)
NoSessionStaysOpen ==
    \A c \in Calls :
        Returned(c) /\ hist[c].opened > 0 =>
            hist[c].quit_calls = hist[c].opened /\ page[c] # "open"

\* page.quit raised inside close
QuitRaised(c) ==
    result[c].error_code = "SEARCH_FAILED" /\ result[c].message = "close"

(***************************************************************************)
(* C3, amended.  When searchFlightRoutes has returned, close was called    *)
(* once on the session it opened, whatever step failed, and the session    *)
(* is closed unless page.quit itself raised.                               *)
(***************************************************************************)
CloseAlwaysCalled ==
    \A c \in Calls :
        Returned(c) /\ hist[c].opened > 0 =>
            /\ hist[c].quit_calls = hist[c].opened
            /\ ~QuitRaised(c) => page[c] = "closed"

\* a call whose navigation failed has returned, its session closed
CloseAlwaysCalledWitness ==
    /\ Returned(1)
    /\ hist[1].opened = 1
    /\ hist[1].fault = "navigate"
    /\ hist[1].quit_calls = 1
    /\ page[1] = "closed"

(***************************************************************************)
(* C4.  Whenever searchFlightRoutes has returned, what it returned is an   *)
(* envelope with status "success" or "error": no fault of a lower step,    *)
(* closing the session included, leaves it as an exception.                *)
(***************************************************************************)
AlwaysAnEnvelope ==
    \A c \in Calls :
        Returned(c) => result[c].status \in {"success", "error"}

\* a call in which closing the session failed has returned an error envelope
AlwaysAnEnvelopeWitness ==
    /\ Returned(1)
    /\ hist[1].quit_calls = 1
    /\ QuitRaised(1)
    /\ result[1].status = "error"

(***************************************************************************)
(* C5, as stated.  A call in which navigation or a later step of the       *)
(* search raised returns an error envelope with code SEARCH_FAILED.        *)
(***************************************************************************)
FaultGivesSearchFailed ==
    \A c \in Calls :
        Returned(c) /\ hist[c].fault # "none" =>
            result[c].status = "error" /\ result[c].error_code = "SEARCH_FAILED"

\* what the arguments of a call are, read without the order of the checks
FieldMissing(c) ==
    \/ args[c].departure_city = ""
    \/ args[c].destination_city = ""
    \/ args[c].departure_date = <<>>
DateMalformed(c) == ~IsSome(Strptime(args[c].departure_date))
DatePast(c) ==
    /\ ~DateMalformed(c)
    /\ DateBefore(Get(Strptime(args[c].departure_date)), Today)
DepartureUnknown(c) == ~IsSome(get_airport_code(args[c].departure_city))
DestinationUnknown(c) == ~IsSome(get_airport_code(args[c].destination_city))
DependenciesAvailable == DRISSION_PAGE_AVAILABLE /\ cities_dict_available

\* the specific code of each validation error, the first failing check first
SpecificCode(c) ==
    /\ FieldMissing(c) => result[c].error_code = "INVALID_PARAMS"
    /\ ~FieldMissing(c) /\ DateMalformed(c) =>
          result[c].error_code = "INVALID_DATE_FORMAT"
    /\ ~FieldMissing(c) /\ DatePast(c) => result[c].error_code = "PAST_DATE"
    /\ ~FieldMissing(c) /\ ~DateMalformed(c) /\ ~DatePast(c)
          /\ DepartureUnknown(c) =>
          result[c].error_code = "INVALID_DEPARTURE_CITY"
    /\ ~FieldMissing(c) /\ ~DateMalformed(c) /\ ~DatePast(c)
          /\ ~DepartureUnknown(c) /\ DestinationUnknown(c) =>
          result[c].error_code = "INVALID_DESTINATION_CITY"

(***************************************************************************)
(* C6, as stated.  In every state of the dependencies a call with a        *)
(* validation error returns the specific code of that error.               *)
(***************************************************************************)
ValidationCodeAlways ==
    \A c \in Calls : Returned(c) => SpecificCode(c)

(***************************************************************************)
(* C6, amended.  A missing field gives INVALID_PARAMS in every state of    *)
(* the dependencies.  The other validation errors give their specific      *)
(* code when the driver and the lookup are both available; when one is     *)
(* not, a call with all three fields returns the dependency's code.        *)
(***************************************************************************)
ValidationCodeWhenAvailable ==
    \A c \in Calls :
        Returned(c) =>
            /\ FieldMissing(c) => result[c].error_code = "INVALID_PARAMS"
            /\ DependenciesAvailable => SpecificCode(c)
            /\ ~FieldMissing(c) /\ ~DRISSION_PAGE_AVAILABLE =>
                  result[c].error_code = "DRISSION_PAGE_NOT_AVAILABLE"
            /\ ~FieldMissing(c) /\ DRISSION_PAGE_AVAILABLE
                  /\ ~cities_dict_available =>
                  result[c].error_code = "CITIES_DICT_NOT_AVAILABLE"

\* with both dependencies available, a date of month 13 was answered
ValidationCodeWitness ==
    /\ Returned(1)
    /\ DependenciesAvailable
    /\ ~FieldMissing(1)
    /\ DateMalformed(1)
    /\ result[1].error_code = "INVALID_DATE_FORMAT"

\* the codes of the validation errors and of the dependency errors
EarlyCodes ==
    {"INVALID_PARAMS", "DRISSION_PAGE_NOT_AVAILABLE", "CITIES_DICT_NOT_AVAILABLE",
     "INVALID_DATE_FORMAT", "PAST_DATE", "INVALID_DEPARTURE_CITY",
     "INVALID_DESTINATION_CITY"}

(***************************************************************************)
(* C7.  A call that ends in a validation or dependency error has opened    *)
(* no session, and a session exists only in a call whose fields are all    *)
(* there, whose dependencies are available, whose date is well-formed and  *)
(* not past and whose cities both resolve.                                 *)
(***************************************************************************)
NoSessionBeforeChecks ==
    \A c \in Calls :
        /\ Returned(c) /\ result[c].error_code \in EarlyCodes =>
              hist[c].opened = 0 /\ page[c] = "none"
        /\ hist[c].opened > 0 \/ page[c] # "none" =>
              /\ ~FieldMissing(c)
              /\ DependenciesAvailable
              /\ ~DateMalformed(c) /\ ~DatePast(c)
              /\ ~DepartureUnknown(c) /\ ~DestinationUnknown(c)

\* a call stopped at the last check, the destination city, with no session
NoSessionBeforeChecksWitness ==
    /\ Returned(1)
    /\ result[1].error_code = "INVALID_DESTINATION_CITY"
    /\ hist[1].opened = 0
    /\ page[1] = "none"

\* the list holds a record whose identity key is empty
HoldsKeyless(fl) == \E i \in 1..Len(fl) : MakeFlightKey(fl[i]) = <<>>

(***************************************************************************)
(* C8, as stated.  After a round that extracted a valid record with an     *)
(* empty identity key, the deduplicated set holds such a record.           *)
(***************************************************************************)
KeylessAlwaysAdded ==
    \A c \in Calls :
        pc[c] \in {"scroll", "scroll_top"} /\ hist[c].keyless =>
            HoldsKeyless(scrolled_flights[c])

(***************************************************************************)
(* C8, amended.  A record with an empty identity key is never added: the   *)
(* deduplicated set, the list of the final pass and the result hold only   *)
(* records with a non-empty key.                                           *)
(***************************************************************************)
KeylessNeverAdded ==
    \A c \in Calls :
        /\ ~HoldsKeyless(scrolled_flights[c])
        /\ ~HoldsKeyless(flights[c])
        /\ ~HoldsKeyless(result[c].flights)

\* the rounds extracted a price-only record and collected other records
KeylessNeverAddedWitness ==
    /\ pc[1] = "scroll_top"
    /\ hist[1].keyless
    /\ Len(scrolled_flights[1]) > 0

(***************************************************************************)
(* C9, as stated.  In a success result the index fields of the returned    *)
(* flights are 1, 2, ..., N in the order of the list.                      *)
(***************************************************************************)
IndexesAreOneToN ==
    \A c \in Calls :
        Returned(c) /\ result[c].status = "success" =>
            \A i \in 1..Len(result[c].flights) : result[c].flights[i].idx = i

(***************************************************************************)
(* C10, as stated.  When the loader leaves its loop for stability, the     *)
(* last three rounds each had no new record, the height of the round       *)
(* before and a count not greater than that of the round before.           *)
(***************************************************************************)
StableStopByLastRound ==
    \A c \in Calls :
        pc[c] = "scroll_top" /\ loop[c].exit = "stable" =>
            hist[c].run_prev >= stable_rounds

(***************************************************************************)
(* C10, amended.  When the loader leaves its loop for stability, the last  *)
(* three rounds each had no new record, the height of the round before     *)
(* and a count not greater than the largest count of any earlier round;    *)
(* the loop's count of stable rounds is the length of the current run of   *)
(* such rounds, so a round failing a condition sets it to zero.            *)
(***************************************************************************)
StableStopByLargestCount ==
    \A c \in Calls :
        /\ pc[c] = "scroll_top" /\ loop[c].exit = "stable" =>
              hist[c].run_hi >= stable_rounds
        /\ pc[c] \in {"scroll", "scroll_top"} /\ loop[c].exit # "cap" =>
              loop[c].same_rounds = hist[c].run_hi

\* a stop for stability whose last three rounds did not all have a count
\* within that of the round before
StableStopWitness ==
    /\ pc[1] = "scroll_top"
    /\ loop[1].exit = "stable"
    /\ hist[1].run_hi = stable_rounds
    /\ hist[1].run_prev < stable_rounds

(***************************************************************************)
(* C11.  However the scroll loop ends, the loader attempts the scroll back *)
(* to the top before it returns: a loader that has returned has attempted  *)
(* it.                                                                     *)
(***************************************************************************)
LoaderReturned(c) == hist[c].top # "none"

TopAlwaysAttempted ==
    \A c \in Calls : LoaderReturned(c) => hist[c].top = "attempted"

\* the selectors whose element text becomes one field of the record
DirectField ==
    [airline_span |-> "airline", depart_time |-> "departTime",
     depart_airport |-> "departAirport", depart_terminal |-> "departTerminal",
     arrive_time |-> "arriveTime", arrive_airport |-> "arriveAirport",
     arrive_terminal |-> "arriveTerminal", price_span |-> "price"]

\* the container with every lookup and every text access succeeding
Healthy(container) == [container EXCEPT !.lookup_fails = {}, !.text_fails = {}]

\* the fields each container of the page yields when nothing fails
HealthyFields == [i \in 1..MaxItems |-> FieldsOf(Healthy(PageItems[i]), i)]

\* the container in which a failed read only leaves its element out
ReadFailureDropped(container) ==
    [container EXCEPT !.lookup_fails = @ \cup container.text_fails,
                      !.text_fails = {}]

DroppedParsed ==
    [i \in 1..MaxItems |->
        ParseFlightContainer(ReadFailureDropped(PageItems[i]), i)]

\* one of flight number, departure time and price can be read from item i
Obtained(i) ==
    \/ IsSome(FlightNoOf(PageItems[i]))
    \/ \E f \in {"depart_time", "price_span"} :
          /\ f \notin PageItems[i].lookup_fails
          /\ IsSome(HealthyFields[i][DirectField[f]])

ObtainedItems == {i \in 1..MaxItems : Obtained(i)}

\* the containers of the page some text access of the extraction fails on
RaisingItems == {i \in 1..MaxItems : TextAccessRaises(PageItems[i])}

(***************************************************************************)
(* C12 as stated.  Any failed read of a field, lookup or text access,      *)
(* leaves only that field unset: the extractor returns what it returns for *)
(* the container without the elements that failed.                         *)
(***************************************************************************)
AnyReadFailureUnsetsField ==
    \A c \in Calls : \A i \in hist[c].extracted :
        ParsedItems[i] = DroppedParsed[i]

(***************************************************************************)
(* C12 amended.  A failed element lookup leaves only its field unset, the  *)
(* other fields are those of the healthy container, and the record is      *)
(* returned exactly when one of flight number, departure time and price    *)
(* was obtained; a failed text access makes the extractor return nothing.  *)
(***************************************************************************)
LookupFailureUnsetsField ==
    \A c \in Calls : \A i \in hist[c].extracted :
        IF i \in RaisingItems THEN ParsedItems[i] = None
        ELSE /\ IsSome(ParsedItems[i]) <=> i \in ObtainedItems
             /\ IsSome(ParsedItems[i]) =>
                   \A f \in DOMAIN DirectField :
                       Get(ParsedItems[i])[DirectField[f]] =
                           IF f \in PageItems[i].lookup_fails THEN None
                           ELSE HealthyFields[i][DirectField[f]]

\* a record was returned without the airline whose lookup failed, and a
\* container whose airline text cannot be read was extracted
LookupFailureWitness ==
    \E c \in Calls :
        /\ {6, 7} \subseteq hist[c].extracted
        /\ IsSome(ParsedItems[6]) /\ Get(ParsedItems[6]).airline = None
        /\ IsSome(HealthyFields[6].airline)
        /\ 7 \in RaisingItems /\ 7 \in ObtainedItems

(***************************************************************************)
(* C13.  The extractor never raises: for every container it was applied    *)
(* to, also one missing every field and one whose lookups or text accesses *)
(* fail, it returned a record or nothing, and nothing when none of flight  *)
(* number, departure time and price was obtained.                          *)
(***************************************************************************)
ExtractorReturnsRecordOrNone ==
    \A c \in Calls : \A i \in hist[c].extracted :
        /\ \/ ParsedItems[i] = None
           \/ /\ Len(ParsedItems[i]) = 1
              /\ DOMAIN Get(ParsedItems[i]) = DOMAIN NewFlightInfo(i)
              /\ Get(ParsedItems[i]).idx = i
        /\ i \notin ObtainedItems => ParsedItems[i] = None

\* the extractor was applied to the container without any field, to one
\* whose text access fails and to one whose lookup fails and yields nothing
ExtractorWitness ==
    \E c \in Calls :
        /\ {1, 7, 8} \subseteq hist[c].extracted
        /\ PageItems[1] = EmptyContainer
        /\ 7 \in RaisingItems
        /\ PageItems[8].lookup_fails # {} /\ 8 \notin ObtainedItems
        /\ ParsedItems[1] = None /\ ParsedItems[8] = None

(***************************************************************************)
(* C14.  Whatever the three readiness signals report, and also when the    *)
(* evaluation of one of them fails, the page-readiness wait returns and    *)
(* the search goes on: no search is ended by the page-readiness wait.      *)
(***************************************************************************)
PageReadyNeverAborts ==
    \A c \in Calls : hist[c].fault # "page_ready"

\* the flight-list wrapper was found neither at content readiness nor in
\* the final pass
WrapperNeverFound(c) ==
    hist[c].wrapper = "absent" /\ hist[c].final = "absent"

(***************************************************************************)
(* C15 as stated.  When the flight-list wrapper never appears, the call    *)
(* (closing the session aside) returns a success result with zero flights. *)
(***************************************************************************)
NoWrapperGivesNoFlights ==
    \A c \in Calls :
        Returned(c) /\ WrapperNeverFound(c)
                    /\ result[c] # OuterExcept("close") =>
            result[c].status = "success" /\ result[c].flight_count = 0

(***************************************************************************)
(* C15 amended.  A wrapper that is absent at content readiness does not    *)
(* end the search; when it is absent in the final pass too, the final pass *)
(* returns the records of the scroll rounds as they are, and the call      *)
(* returns them with status success unless closing the session failed.     *)
(***************************************************************************)
NoWrapperGivesScrolled ==
    \A c \in Calls :
        /\ hist[c].wrapper = "absent" => hist[c].fault # "flight_content"
        /\ WrapperNeverFound(c) =>
              /\ hist[c].fault = "none"
              /\ pc[c] \in {"close", "aggregate"} =>
                    flights[c] = scrolled_flights[c]
              /\ Returned(c) =>
                    \/ result[c] = OuterExcept("close")
                    \/ /\ result[c].status = "success"
                       /\ result[c].flight_count = Len(result[c].flights)
                       /\ FirstSeenOnly(result[c].flights,
                                        KeysOf(result[c].flights),
                                        hist[c].first_seen)

\* a success result with flights although the wrapper was never found
NoWrapperWitness ==
    \E c \in Calls :
        /\ Returned(c) /\ WrapperNeverFound(c)
        /\ result[c].status = "success" /\ result[c].flight_count > 0

\* every record of fl carries a flight number, a departure time or a price
AllCarryOneOfThree(fl) ==
    \A i \in 1..Len(fl) :
        \/ fl[i].flightNo # None
        \/ fl[i].departTime # None
        \/ fl[i].price # None

(***************************************************************************)
(* C16.  Every record of a success result, and of the lists it is built    *)
(* from, carries at least one of flight number, departure time and price:  *)
(* a container that yields none of them never contributes a record.        *)
(***************************************************************************)
RecordsCarryOneOfThree ==
    \A c \in Calls :
        /\ AllCarryOneOfThree(scrolled_flights[c])
        /\ AllCarryOneOfThree(flights[c])
        /\ AllCarryOneOfThree(result[c].flights)

\* a success result with flights, after the extraction of the containers
\* that yield none of the three (one of them with an airline and an arrival
\* time)
RecordsCarryWitness ==
    \E c \in Calls :
        /\ Returned(c) /\ result[c].status = "success"
        /\ result[c].flight_count > 0
        /\ {1, 8} \subseteq hist[c].extracted
        /\ IsSome(HealthyFields[8].airline)
        /\ {1, 8} \cap ObtainedItems = {}

\* d is the first run of digits of text
IsFirstDigitRun(d, text) ==
    \E a \in 1..Len(text) : \E b \in a..Len(text) :
        /\ d = SubSeq(text, a, b)
        /\ \A k \in 1..(a - 1) : text[k] \notin Digit
        /\ \A k \in a..b : text[k] \in Digit
        /\ b = Len(text) \/ text[b + 1] \notin Digit

\* the price of the record of item i is the text of its price element when
\* that holds the currency symbol, else the symbol and the first digit run
PriceConforms(i) ==
    LET price == Get(ParsedItems[i]).price
        text == Strip(Get(PageItems[i].price_span))
    IN  IsSome(price) =>
            IF \E k \in 1..Len(text) : text[k] = Yen
            THEN Get(price) = text
            ELSE /\ Get(price)[1] = Yen
                 /\ IsFirstDigitRun(Tail(Get(price)), text)

ConformingItems ==
    {i \in 1..MaxItems : IsSome(ParsedItems[i]) => PriceConforms(i)}

\* the prices of fl all begin with the currency symbol
PricesBeginWithYen(fl) ==
    \A i \in 1..Len(fl) :
        IsSome(fl[i].price) => Get(fl[i].price)[1] = Yen

\* the prices of fl all hold the currency symbol
PricesHoldYen(fl) ==
    \A i \in 1..Len(fl) :
        IsSome(fl[i].price) =>
            \E k \in 1..Len(Get(fl[i].price)) : Get(fl[i].price)[k] = Yen

(***************************************************************************)
(* C17 as stated.  The price of a record, when present, begins with the    *)
(* currency symbol.                                                        *)
(***************************************************************************)
PriceBeginsWithYen ==
    \A c \in Calls :
        /\ PricesBeginWithYen(scrolled_flights[c])
        /\ PricesBeginWithYen(flights[c])
        /\ PricesBeginWithYen(result[c].flights)

(***************************************************************************)
(* C17 amended.  The price of a record, when present, holds the currency   *)
(* symbol: it is the text of the price element verbatim when that text     *)
(* holds the symbol anywhere, else the symbol followed by the first digit  *)
(* run of the text.                                                        *)
(***************************************************************************)
PriceVerbatimOrPrefixed ==
    \A c \in Calls :
        /\ hist[c].extracted \subseteq ConformingItems
        /\ PricesHoldYen(scrolled_flights[c])
        /\ PricesHoldYen(flights[c])
        /\ PricesHoldYen(result[c].flights)

\* the three kinds of price text were extracted, and the result holds the
\* price that was kept verbatim with the symbol inside
PriceWitness ==
    \E c \in Calls :
        /\ {2, 3, 9} \subseteq hist[c].extracted
        /\ Get(ParsedItems[2]).price = PageItems[2].price_span
        /\ PageItems[3].price_span = Some(<<"3", "0", "0", Qi>>)
        /\ Get(ParsedItems[3]).price = Some(<<Yen, "3", "0", "0">>)
        /\ Returned(c)
        /\ \E i \in 1..Len(result[c].flights) :
              /\ result[c].flights[i].price = PageItems[9].price_span
              /\ Get(result[c].flights[i].price)[1] # Yen

\* the call returned a success result
ReturnedSuccess(c) == Returned(c) /\ result[c].status = "success"

\* a price without the currency symbol and the qualifier
Bare(price) == SelectSeq(price, LAMBDA ch : ch \notin {Yen, Qi})

\* the flights of fl whose bare price is a digit string
Priced(fl) ==
    {i \in 1..Len(fl) :
        /\ IsSome(fl[i].price)
        /\ Bare(Get(fl[i].price)) # <<>>
        /\ \A k \in 1..Len(Bare(Get(fl[i].price))) :
              Bare(Get(fl[i].price))[k] \in Digit}

PriceValue(flight) == ToInt(Bare(Get(flight.price)))

RECURSIVE SumOver(_, _)
SumOver(S, fl) ==
    IF S = {} THEN 0
    ELSE LET i == CHOOSE j \in S : TRUE
         IN  PriceValue(fl[i]) + SumOver(S \ {i}, fl)

\* st is the statistics of the priced flights S of fl
StatisticsRight(st, S, fl, sum) ==
    /\ IsSome(st) <=> S # {}
    /\ IsSome(st) =>
          /\ \E i \in S : Get(st).min_price = PriceValue(fl[i])
          /\ \E i \in S : Get(st).max_price = PriceValue(fl[i])
          /\ \A i \in S : /\ Get(st).min_price <= PriceValue(fl[i])
                           /\ PriceValue(fl[i]) <= Get(st).max_price
          /\ Get(st).avg_price * Cardinality(S) <= sum
          /\ sum < (Get(st).avg_price + 1) * Cardinality(S)
          /\ Get(st).min_price <= Get(st).avg_price
          /\ Get(st).avg_price <= Get(st).max_price

(***************************************************************************)
(* C18.  In a success result the price statistics are present exactly      *)
(* when some flight has a price that is a digit string once the currency   *)
(* symbol and the qualifier are removed; they are computed over exactly    *)
(* those flights, the average is the floor of sum / count, and             *)
(* min <= avg <= max.                                                      *)
(***************************************************************************)
PriceStatisticsRight ==
    \A c \in Calls :
        ReturnedSuccess(c) =>
            \E S \in {Priced(result[c].flights)} :
                StatisticsRight(result[c].price_statistics, S,
                                result[c].flights,
                                SumOver(S, result[c].flights))

\* statistics over some but not all flights of the result: one flight has no
\* price, one a price that is no digit string, and the average is rounded
PriceStatisticsWitness ==
    \E c \in Calls :
        /\ ReturnedSuccess(c)
        /\ IsSome(result[c].price_statistics)
        /\ \E S \in {Priced(result[c].flights)} :
              /\ \E i \in 1..Len(result[c].flights) :
                    result[c].flights[i].price = None
              /\ \E i \in (1..Len(result[c].flights)) \ S :
                    IsSome(result[c].flights[i].price)
              /\ SumOver(S, result[c].flights) % Cardinality(S) # 0
              /\ Get(result[c].price_statistics).min_price
                    < Get(result[c].price_statistics).avg_price
              /\ Get(result[c].price_statistics).avg_price
                    < Get(result[c].price_statistics).max_price

\* the airline names of the flights of fl that carry one
NamesIn(fl) ==
    {Get(fl[i].airline) : i \in {j \in 1..Len(fl) : IsSome(fl[j].airline)}}

\* the flights of fl counted under name a
CountedUnder(a, fl) ==
    {i \in 1..Len(fl) :
        \/ fl[i].airline = Some(a)
        \/ fl[i].airline = None /\ a = Unknown}

RECURSIVE SumCounts(_, _)
SumCounts(S, st) ==
    IF S = {} THEN 0
    ELSE LET a == CHOOSE b \in S : TRUE
         IN  st[a] + SumCounts(S \ {a}, st)

WaitLeft(w) ==
    (LoadingSelectors - w.selector) * (2 * MaxPolls + 2)
        + 2 * (MaxPolls - w.polls) + (IF w.asleep THEN 0 ELSE 1)

\* more than any waiting loop can make
WaitSpan == (LoadingSelectors + 1) * (2 * MaxPolls + 2)

\* the statements between the call and its return, waits aside
Rank(c) ==
    LET rounds_left == 5 * (max_rounds - loop[c].i)
    IN  CASE pc[c] \in {"done", "idle"} -> 0
          [] pc[c] = "aggregate" -> 1
          [] pc[c] = "close" -> 2
          [] pc[c] = "parse" -> 3
          [] pc[c] = "scroll_top" -> 4
          [] pc[c] = "collect" -> 5 + rounds_left
          [] pc[c] = "observe" -> 6 + rounds_left
          [] pc[c] = "round_loading" -> 7 + rounds_left
          [] pc[c] = "settle" -> 8 + rounds_left
          [] pc[c] = "scroll" -> 9 + rounds_left
          [] pc[c] = "install_logger" -> 10 + 5 * max_rounds
          [] pc[c] = "stealth" -> 11 + 5 * max_rounds
          [] pc[c] = "content_loading" -> 12 + 5 * max_rounds
          [] pc[c] = "flight_content" -> 13 + 5 * max_rounds
          [] pc[c] = "ajax_ready" -> 14 + 5 * max_rounds
          [] pc[c] = "jquery_ready" -> 15 + 5 * max_rounds
          [] pc[c] = "page_ready" -> 16 + 5 * max_rounds
          [] pc[c] = "navigate" -> 17 + 5 * max_rounds
          [] pc[c] = "construct" -> 18 + 5 * max_rounds
          [] pc[c] = "start" -> 19 + 5 * max_rounds

\* a bound on the steps call c can still take
Remaining(c) == Rank(c) * WaitSpan + WaitLeft(wait[c])

\* no call gains steps and one call loses some
FewerRemaining ==
    /\ \A c \in Calls : Remaining(c)' <= Remaining(c)
    /\ \E c \in Calls : Remaining(c)' < Remaining(c)

\* every step of a call, a poll or a sleep of a waiting loop included, takes
\* away from a bound on the steps still to come
StepsDecrease == [][FewerRemaining]_vars

\* every call that was made has returned, eventually
AllReturned == <>(\A c \in Calls : pc[c] # "idle" => Returned(c))

(***************************************************************************)
(* C20.  Every wait ends after a bounded number of polls whatever the page *)
(* reports: each poll and each sleep lowers a bound on the steps the call  *)
(* can still take.  So a call whose browser calls all return does itself   *)
(* return.                                                                 *)
(***************************************************************************)
EveryCallReturns == StepsDecrease /\ AllReturned

\* in the last scroll round the indicator of the last selector was still
\* there when the timeout of its wait had passed
WaitTimedOutWitness ==
    \E c \in Calls :
        /\ pc[c] = "round_loading"
        /\ hist[c].rounds = max_rounds
        /\ wait[c].selector = LoadingSelectors
        /\ wait[c].polls = MaxPolls /\ TimedOut(wait[c].polls)

\* ------------------------------------------------------------------- C21

\* the statements of searchFlightRoutes and of search_flights in the order of
\* the source: from each one, the statements that can be executed next when
\* nothing raises out of it (a scroll round: scroll, settle, wait for the
\* loading indicators, count, extract and merge)
Order ==
    {<<"start", "construct">>, <<"construct", "navigate">>,
     <<"navigate", "page_ready">>, <<"page_ready", "jquery_ready">>,
     <<"jquery_ready", "ajax_ready">>, <<"ajax_ready", "flight_content">>,
     <<"flight_content", "content_loading">>, <<"flight_content", "stealth">>,
     <<"content_loading", "stealth">>, <<"stealth", "install_logger">>,
     <<"install_logger", "scroll">>, <<"scroll", "settle">>,
     <<"settle", "round_loading">>, <<"round_loading", "observe">>,
     <<"observe", "collect">>, <<"collect", "scroll">>,
     <<"collect", "scroll_top">>, <<"observe", "parse">>,
     <<"scroll_top", "parse">>, <<"parse", "close">>,
     <<"close", "aggregate">>, <<"aggregate", "done">>}

\* the statements before the stealth injection, and from it to the final pass
BeforeStealth ==
    {"start", "construct", "navigate", "page_ready", "jquery_ready",
     "ajax_ready", "flight_content", "content_loading", "stealth"}
StealthToParse ==
    {"install_logger", "scroll", "settle", "round_loading", "observe",
     "collect", "scroll_top", "parse"}

\* the search was given up: a step raised into the except clause of
\* search_flights, or search_flights returned before its try block; never
\* at the stealth injection or at the hook installation
GivenUp(c) ==
    /\ pc'[c] = "close"
    /\ pc[c] \notin {"stealth", "install_logger"}
    /\ hist'[c].fault # "none" \/ pc[c] = "navigate"

\* searchFlightRoutes answered with an error envelope
Answered(c) == pc'[c] = "done" /\ result'[c].status = "error"

\* where the stealth injection and the close stand among the statements
OnceAndLast(c) ==
    /\ pc[c] \in BeforeStealth => hist[c].stealth = 0
    /\ pc[c] \in StealthToParse =>
          /\ hist[c].stealth = 1
          /\ hist[c].quit_calls = 0
          /\ page[c] = "open"
    /\ hist[c].final # "none" =>
          /\ hist[c].stealth = 1
          /\ pc[c] \in {"close", "aggregate", "done"}
    /\ hist[c].quit_calls > 0 => pc[c] \in {"aggregate", "done"}

InOrder ==
    \A c \in Calls :
        /\ \/ pc'[c] = pc[c]
           \/ <<pc[c], pc'[c]>> \in Order
           \/ GivenUp(c)
           \/ Answered(c)
        /\ OnceAndLast(c)'

\* C21: a search runs its statements in the order navigation, page
\* readiness, content readiness, stealth injection, hook installation,
\* scroll rounds (scroll, settle, extract), final pass, close: every step
\* goes to a statement that follows in that order unless the search is
\* given up with an exception; the stealth injection has run exactly once
\* from then to the final pass and in every search that made the final pass,
\* whether or not it or the hook installation failed; the session is open
\* until the final pass is over and quit is called only after it
StepsInOrder == [][InOrder]_vars

\* C21 witness: the stealth script and the installation of the hooks both
\* failed, and the search stands at the first scroll round
StepsInOrderWitness ==
    /\ pc[1] = "scroll"
    /\ hist[1].injected = "failed"
    /\ hist[1].hooks = "failed"
    /\ hist[1].stealth = 1
    /\ loop[1] = LoopStart
    /\ page[1] = "open"

\* ------------------------------------------------------------------- C22

\* no two open sessions are driven through the same control port
OwnSessions ==
    \A c, d \in Calls :
        c # d /\ page[c] = "open" /\ page[d] = "open" => port[c] # port[d]

\* the statements from the first scroll round to the close
Collecting ==
    {"scroll", "settle", "round_loading", "observe", "collect", "scroll_top",
     "parse", "close"}

\* the non-empty identity keys of the records of a list
KeySetOf(fl) == {MakeFlightKey(fl[i]) : i \in 1..Len(fl)} \ {<<>>}

\* what call c holds is what call c extracted: every keyed record of its
\* lists is the first one it extracted itself with that key, and while it
\* collects, its key set is the set of the keys it extracted itself
OwnRecords(c) ==
    /\ FirstSeenOnly(scrolled_flights[c], KeysOf(scrolled_flights[c]),
                     hist[c].first_seen)
    /\ FirstSeenOnly(flights[c], KeysOf(flights[c]), hist[c].first_seen)
    /\ FirstSeenOnly(result[c].flights, KeysOf(result[c].flights),
                     hist[c].first_seen)
    /\ scrolled_flight_keys[c] \subseteq DOMAIN hist[c].first_seen
    /\ pc[c] \in Collecting =>
          DOMAIN hist[c].first_seen \subseteq scrolled_flight_keys[c]
    /\ pc[c] \in {"scroll_top", "parse"} =>
          DOMAIN hist[c].first_seen \subseteq KeySetOf(scrolled_flights[c])
    /\ pc[c] = "close" =>
          DOMAIN hist[c].first_seen \subseteq KeySetOf(flights[c])
    /\ result[c].status = "success" =>
          DOMAIN hist[c].first_seen \subseteq KeySetOf(result[c].flights)

IdentityOf(flight_info) ==
    <<OrEmpty(flight_info.flightNo), OrEmpty(flight_info.departTime),
      OrEmpty(flight_info.arriveTime), OrEmpty(flight_info.departAirport),
      OrEmpty(flight_info.arriveAirport), OrEmpty(flight_info.airline)>>

\* the containers call c extracted a record from
Records(c) == {i \in hist[c].extracted : IsSome(ParsedItems[i])}

\* C23: any two records a call extracted that have the same identity key
\* agree on all six identifying fields
SameKeySameFlight ==
    \A c \in Calls :
        \A i, j \in Records(c) :
            ItemKeys[i] = ItemKeys[j] =>
                IdentityOf(Get(ParsedItems[i])) = IdentityOf(Get(ParsedItems[j]))

\* ------------------------------------------------------------------- C24

\* every record of the list has a flight number
AllNumbered(fl) ==
    \A i \in 1..Len(fl) : OrEmpty(fl[i].flightNo) # <<>>

\* C24: every record of the list the final pass returned, and of the
\* result, has a flight number
ReturnedHaveFlightNo ==
    \A c \in Calls :
        /\ hist[c].final # "none" => AllNumbered(flights[c])
        /\ AllNumbered(result[c].flights)

\* ------------------------------------------------------------------- C25

\* C25: when a round goes on to settle, the page was scrolled in it, by the
\* scroll script or by the default scroll
EveryRoundScrolls ==
    \A c \in Calls :
        pc[c] = "settle" => hist[c].scroll \in {"js", "fallback"}

\* ------------------------------------------------------------------- C26

\* C26, as stated: the set gathered by the scroll rounds never holds more
\* than FlightCap records
SetAtMostCap ==
    \A c \in Calls : Len(scrolled_flights[c]) <= FlightCap

\* C26, amended: the cap ends the loop, it does not bound the set.  A set
\* of FlightCap or more records is found only after the loop, which it left
\* by the cap test; a round adds every new record it sees, so the set holds
\* fewer than FlightCap records plus those of one read of the page
CapEndsLoop ==
    \A c \in Calls :
        /\ Len(scrolled_flights[c]) <= FlightCap - 1 + MaxItems
        /\ Len(scrolled_flights[c]) >= FlightCap =>
              /\ pc[c] \in {"scroll_top", "parse", "close", "aggregate"}
              /\ pc[c] = "scroll_top" => loop[c].exit = "cap"

\* C26 witness: the loop has ended by the cap test with more than FlightCap
\* records in the set
CapEndsLoopWitness ==
    /\ pc[1] = "scroll_top"
    /\ loop[1].exit = "cap"
    /\ Len(scrolled_flights[1]) > FlightCap

\* ------------------------------------------------------------------- C27

\* the defects of the input and of the dependencies of call c, each with
\* its error code, in the claimed order of precedence
Defects(c) ==
    LET flight_date == ParsedDates[args[c].departure_date]
    IN  <<<<FieldMissing(c), "INVALID_PARAMS">>,
          <<~DRISSION_PAGE_AVAILABLE, "DRISSION_PAGE_NOT_AVAILABLE">>,
          <<~cities_dict_available, "CITIES_DICT_NOT_AVAILABLE">>,
          <<~IsSome(flight_date), "INVALID_DATE_FORMAT">>,
          <<IsSome(flight_date) /\ DateBefore(Get(flight_date), Today),
            "PAST_DATE">>,
          <<DepartureUnknown(c), "INVALID_DEPARTURE_CITY">>,
          <<DestinationUnknown(c), "INVALID_DESTINATION_CITY">>>>

\* the positions of the defects that are present
Present(c) == {k \in 1..Len(Defects(c)) : Defects(c)[k][1]}

\* C27: a call that has one or several defects returns one error envelope,
\* with the code of the defect that comes first in the order empty field,
\* driver unavailable, lookup unavailable, malformed date, past date,
\* unresolvable departure city, unresolvable destination city
FirstDefectReported ==
    \A c \in Calls :
        Returned(c) /\ Present(c) # {} =>
            \E k \in Present(c) :
                /\ \A j \in Present(c) : k <= j
                /\ result[c].status = "error"
                /\ result[c].error_code = Defects(c)[k][2]
                /\ result[c].flights = <<>>
                /\ hist[c].opened = 0

\* C27 witness: a call with three defects (driver unavailable, a date of
\* month 13, an unknown destination) was answered with the first of them
FirstDefectWitness ==
    /\ Returned(1)
    /\ Present(1) = {2, 4, 7}
    /\ result[1].error_code = "DRISSION_PAGE_NOT_AVAILABLE"

====
